---------------------------- MODULE Spec2Model ----------------------------
(***************************************************************************)
(* A model of rusty-pcap: the byte-order engine, the pcap file and packet *)
(* header codecs, the pcap writer and reader, the pcap-ng option list,     *)
(* the pcap-ng block readers and section reader, and the format-detecting  *)
(* reader.  Byte strings are sequences of naturals in 0..255; an io::Read  *)
(* stream is the pair (stream, pos) of the bytes and the read offset.      *)
(***************************************************************************)
EXTENDS Integers, Sequences, FiniteSets, TLC

VARIABLES
    mode,         \* which harness drives the run
    fnPc,         \* pure-function harness: what has been applied
    fnArg,        \* pure-function harness: the input drawn by Init
    fnOut,        \* pure-function harness: the value the function returned
    stream,       \* the bytes of the file / sink / reader
    pos,          \* read offset of the reader into stream
    wHeader,      \* SeeklessPcapWriter.header
    wState,       \* writer: "none" | "open" | "finished"
    wLast,        \* result of the last writer call
    requires_header_rewrite,  \* SyncPcapWriter: a packet exceeded snap_length
    written,      \* history: the packets the writer accepted
    rdHeader,     \* SyncPcapReader.file_header
    rdState,      \* pcap reader: "none" | "open" | "failed"
    rdLast,       \* result of the last next_packet call
    rdGot,        \* history: the packets next_packet returned
    profile,      \* the build profile: "debug" | "release"
    current_section,  \* SyncPcapNgReader.current_section
    interfaces,   \* SyncPcapNgReader.interfaces
    packet_buffer,  \* the packet buffer held by the pcap-ng reader
    ngState,      \* pcap-ng reader: "none" | "open" | "failed" | "panicked"
    ngLast,       \* result of the last next_block call
    ngGot,        \* history: the blocks next_block returned
    ngPacket      \* result of the last next_packet call of the pcap-ng reader

wCalls == <<wLast, requires_header_rewrite>>
pcapVars == <<stream, pos, wHeader, wState, wCalls, written, rdHeader, rdState, rdLast, rdGot>>
fnVars == <<fnPc, fnArg, fnOut>>
ngVars == <<profile, current_section, interfaces, packet_buffer, ngState, ngLast, ngGot,
            ngPacket>>
vars == <<mode, fnVars, pcapVars, ngVars>>

----------------------------------------------------------------------------
(* Bounds of the model *)

\* largest length given to pad_length_to_32_bytes
MaxPadLen == 130
\* packets written through the writer in one run
MaxPackets == 2
\* longest packet content handed to the writer
MaxContentLen == 2
MaxRecords == 1
\* blocks that follow the first Section Header Block of a pcap-ng stream
MaxBlocks == 2
\* options in one BlockOptions list
MaxOptions == 2

----------------------------------------------------------------------------
(* Generic helpers *)

Min(a, b) == IF a < b THEN a ELSE b

Endianness == {"LittleEndian", "BigEndian"}

\* core::num to_le_bytes / to_be_bytes / from_le_bytes / from_be_bytes
to_le_bytes2(v) == <<v % 256, (v \div 256) % 256>>
to_be_bytes2(v) == <<(v \div 256) % 256, v % 256>>
from_le_bytes2(b) == b[1] + 256 * b[2]
from_be_bytes2(b) == 256 * b[1] + b[2]
to_le_bytes4(v) == <<v % 256, (v \div 256) % 256, (v \div 65536) % 256, (v \div 16777216) % 256>>
to_be_bytes4(v) == <<(v \div 16777216) % 256, (v \div 65536) % 256, (v \div 256) % 256, v % 256>>
from_le_bytes4(b) == b[1] + 256 * b[2] + 65536 * b[3] + 16777216 * b[4]
from_be_bytes4(b) == 16777216 * b[1] + 65536 * b[2] + 256 * b[3] + b[4]

\* Read::read_exact on (s, p): n bytes or UnexpectedEof; a failed read_exact
\* has drained the stream
read_exact(s, p, n) ==
    IF p + n <= Len(s)
    THEN [ok |-> TRUE, bytes |-> SubSeq(s, p + 1, p + n), pos |-> p + n]
    ELSE [ok |-> FALSE, bytes |-> <<>>, pos |-> Len(s)]

----------------------------------------------------------------------------
(* byte_order.rs *)

BigEndian_u16_from_bytes(b) == from_be_bytes2(b)
BigEndian_u16_to_bytes(v) == to_be_bytes2(v)
BigEndian_u32_from_bytes(b) == from_be_bytes4(b)
BigEndian_u32_to_bytes(v) == to_le_bytes4(v)
LittleEndian_u16_from_bytes(b) == from_le_bytes2(b)
LittleEndian_u16_to_bytes(v) == to_le_bytes2(v)
LittleEndian_u32_from_bytes(b) == from_le_bytes4(b)
LittleEndian_u32_to_bytes(v) == to_le_bytes4(v)

u16_from_bytes(e, b) ==
    IF e = "BigEndian" THEN BigEndian_u16_from_bytes(b) ELSE LittleEndian_u16_from_bytes(b)
u16_to_bytes(e, v) ==
    IF e = "BigEndian" THEN BigEndian_u16_to_bytes(v) ELSE LittleEndian_u16_to_bytes(v)
u32_from_bytes(e, b) ==
    IF e = "BigEndian" THEN BigEndian_u32_from_bytes(b) ELSE LittleEndian_u32_from_bytes(b)
u32_to_bytes(e, v) ==
    IF e = "BigEndian" THEN BigEndian_u32_to_bytes(v) ELSE LittleEndian_u32_to_bytes(v)

----------------------------------------------------------------------------
(* pcap_ng/mod.rs *)

PCAP_NG_MAGIC == <<10, 13, 13, 10>>

\* mutant: the multiple-of-4 test is dropped
pad_length_always_adds(length) == length + (4 - (length % 4))
pad_length_to_32_bytes(length) ==
    IF length % 4 = 0 THEN length ELSE length + (4 - (length % 4))

----------------------------------------------------------------------------
(* lib.rs: Version *)

Version(major, minor) == [major |-> major, minor |-> minor]
\* Version's ordering and the named versions are not in the sources at hand:
\* "versions before 2.3", compared by major, then minor
Version_lt(a, b) == a.major < b.major \/ (a.major = b.major /\ a.minor < b.minor)
PCAP_VERSION_2_3 == Version(2, 3)
PCAP_VERSION_2_4 == Version(2, 4)

Version_parse(b, e) ==
    Version(u16_from_bytes(e, <<b[1], b[2]>>), u16_from_bytes(e, <<b[3], b[4]>>))
Version_write(v, e) == u16_to_bytes(e, v.major) \o u16_to_bytes(e, v.minor)

----------------------------------------------------------------------------
(* link_type.rs *)

LinkTypes ==
    {0, 1, 3, 6, 7, 8, 9, 10, 50, 51, 104, 166, 204, 205, 206, 100, 101, 107, 182,
     105, 119, 127, 163, 187, 195, 201, 215, 230, 251, 254, 255, 256, 283,
     108, 113, 117, 129, 144, 177, 189, 220, 226, 227, 239, 253, 258, 266, 271, 276,
     139, 140, 141, 142, 169, 170, 171, 209, 250, 257, 261, 262, 263, 287,
     114, 122, 123, 138, 143, 165, 196, 197, 202, 203, 207, 224, 225, 228, 229, 231,
     235, 236, 237, 240, 241, 242, 243, 244, 245, 247, 248, 249, 192, 259, 260, 264,
     265, 268, 270, 272, 273, 274, 275, 278, 279, 280, 281, 282, 284, 285, 286, 288, 289}

\* TryFrom<u32> for LinkType
LinkType_try_from_u32(value) ==
    IF value \in LinkTypes
    THEN [ok |-> TRUE, val |-> value, err |-> "", raw |-> 0]
    ELSE [ok |-> FALSE, val |-> 0, err |-> "InvalidLinkType", raw |-> value % 65536]

----------------------------------------------------------------------------
(* pcap/file_header.rs *)

MagicNumberAndEndianness(m, e) == [magic_number |-> m, endianness |-> e]
MagicNumbers == {"Microsecond", "Nanosecond"}

\* TryFrom<[u8; 4]> for MagicNumberAndEndianness
MagicNumberAndEndianness_try_from(value) ==
    CASE value = <<161, 178, 195, 212>> ->
            [ok |-> TRUE, val |-> MagicNumberAndEndianness("Microsecond", "BigEndian")]
      [] value = <<212, 195, 178, 161>> ->
            [ok |-> TRUE, val |-> MagicNumberAndEndianness("Microsecond", "LittleEndian")]
      [] value = <<161, 178, 60, 77>> ->
            [ok |-> TRUE, val |-> MagicNumberAndEndianness("Nanosecond", "BigEndian")]
      [] value = <<77, 60, 178, 161>> ->
            [ok |-> TRUE, val |-> MagicNumberAndEndianness("Nanosecond", "LittleEndian")]
      [] OTHER ->
            [ok |-> FALSE, val |-> MagicNumberAndEndianness("", "")]

\* From<MagicNumberAndEndianness> for [u8; 4]
MagicNumberAndEndianness_into_bytes(value) ==
    CASE value.magic_number = "Microsecond" /\ value.endianness = "LittleEndian" ->
            <<212, 195, 178, 161>>
      [] value.magic_number = "Microsecond" /\ value.endianness = "BigEndian" ->
            <<161, 178, 195, 212>>
      [] value.magic_number = "Nanosecond" /\ value.endianness = "LittleEndian" ->
            <<161, 178, 60, 77>>
      [] value.magic_number = "Nanosecond" /\ value.endianness = "BigEndian" ->
            <<77, 60, 178, 161>>

PcapFileHeader(m, v, tz, sf, snap, lt) ==
    [magic_number_and_endianness |-> m, version |-> v, timezone |-> tz,
     sig_figs |-> sf, snap_length |-> snap, link_type |-> lt]

NoFileHeader ==
    PcapFileHeader(MagicNumberAndEndianness("", ""), Version(0, 0), 0, 0, 0, 0)

\* TryFrom<&[u8; 24]> for PcapFileHeader
PcapFileHeader_try_from(bytes) ==
    LET m == MagicNumberAndEndianness_try_from(SubSeq(bytes, 1, 4))
        e == m.val.endianness
        lt == LinkType_try_from_u32(u32_from_bytes(e, SubSeq(bytes, 21, 24)))
    IN  IF ~m.ok
        THEN [ok |-> FALSE, err |-> "InvalidMagicNumber", bytes |-> SubSeq(bytes, 1, 4),
              raw |-> 0, val |-> NoFileHeader]
        ELSE IF ~lt.ok
        THEN [ok |-> FALSE, err |-> "InvalidLinkType", bytes |-> <<>>,
              raw |-> lt.raw, val |-> NoFileHeader]
        ELSE [ok |-> TRUE, err |-> "", bytes |-> <<>>, raw |-> 0,
              val |-> PcapFileHeader(m.val,
                                     Version_parse(SubSeq(bytes, 5, 8), e),
                                     u32_from_bytes(e, SubSeq(bytes, 9, 12)),
                                     u32_from_bytes(e, SubSeq(bytes, 13, 16)),
                                     u32_from_bytes(e, SubSeq(bytes, 17, 20)),
                                     lt.val)]

\* From<&PcapFileHeader> for [u8; 24]
PcapFileHeader_into_bytes(value) ==
    LET e == value.magic_number_and_endianness.endianness
    IN  MagicNumberAndEndianness_into_bytes(value.magic_number_and_endianness)
        \o Version_write(value.version, e)
        \o u32_to_bytes(e, value.timezone)
        \o u32_to_bytes(e, value.sig_figs)
        \o u32_to_bytes(e, value.snap_length)
        \o u32_to_bytes(e, value.link_type % 65536)

\* PcapFileHeader::read
PcapFileHeader_read(s, p) ==
    LET r == read_exact(s, p, 24)
    IN  IF ~r.ok
        THEN [ok |-> FALSE, err |-> "IO", bytes |-> <<>>, raw |-> 0,
              val |-> NoFileHeader, pos |-> r.pos]
        ELSE [pos |-> r.pos] @@ PcapFileHeader_try_from(r.bytes)

----------------------------------------------------------------------------
(* pcap/packet_header.rs *)

PacketTimestamp(s, u) == [seconds |-> s, usec |-> u]
PacketHeader(ts, incl, orig) == [timestamp |-> ts, include_len |-> incl, orig_len |-> orig]

\* mutant: the field order changes at version 2.4 instead of 2.3
PacketHeader_parse_bytes_swap_at_2_4(bytes, e, version) ==
    LET ts == u32_from_bytes(e, SubSeq(bytes, 1, 4))
        ts_usec == u32_from_bytes(e, SubSeq(bytes, 5, 8))
        third == u32_from_bytes(e, SubSeq(bytes, 9, 12))
        fourth == u32_from_bytes(e, SubSeq(bytes, 13, 16))
    IN  IF Version_lt(version, PCAP_VERSION_2_4)
        THEN PacketHeader(PacketTimestamp(ts, ts_usec), fourth, third)
        ELSE PacketHeader(PacketTimestamp(ts, ts_usec), third, fourth)
\* PacketHeader::parse_bytes
PacketHeader_parse_bytes(bytes, e, version) ==
    LET ts == u32_from_bytes(e, SubSeq(bytes, 1, 4))
        ts_usec == u32_from_bytes(e, SubSeq(bytes, 5, 8))
        third == u32_from_bytes(e, SubSeq(bytes, 9, 12))
        fourth == u32_from_bytes(e, SubSeq(bytes, 13, 16))
    IN  IF Version_lt(version, PCAP_VERSION_2_3)
        THEN PacketHeader(PacketTimestamp(ts, ts_usec), fourth, third)
        ELSE PacketHeader(PacketTimestamp(ts, ts_usec), third, fourth)

\* PacketHeader::write
PacketHeader_write(h, e, version) ==
    u32_to_bytes(e, h.timestamp.seconds)
    \o u32_to_bytes(e, h.timestamp.usec)
    \o (IF Version_lt(version, PCAP_VERSION_2_3)
        THEN u32_to_bytes(e, h.orig_len) \o u32_to_bytes(e, h.include_len)
        ELSE u32_to_bytes(e, h.include_len) \o u32_to_bytes(e, h.orig_len))

----------------------------------------------------------------------------
(* pcap/sync/writer/seekless.rs and pcap/sync/mod.rs *)

NewPacketHeader(ts, orig) == [timestamp |-> ts, orig_len |-> orig]
None32 == [some |-> FALSE, v |-> 0]
Some32(x) == [some |-> TRUE, v |-> x]
unwrap_or(o, d) == IF o.some THEN o.v ELSE d

\* SeeklessPcapWriter::new: the file header goes to the sink
SeeklessPcapWriter_new(header) == PcapFileHeader_into_bytes(header)

\* SeeklessPcapWriter::write_header without the check against snap_length
SeeklessPcapWriter_write_header_unchecked(fileHeader, header, content) ==
    LET new_header == PacketHeader(header.timestamp, Len(content),
                                   unwrap_or(header.orig_len, Len(content)))
    IN  [ok |-> TRUE,
         out |-> PacketHeader_write(new_header,
                                    fileHeader.magic_number_and_endianness.endianness,
                                    fileHeader.version) \o content,
         packet |-> new_header]

\* SeeklessPcapWriter::write_header: the result and the bytes appended to the sink
SeeklessPcapWriter_write_header(fileHeader, header, content) ==
    LET new_header == PacketHeader(header.timestamp, Len(content),
                                   unwrap_or(header.orig_len, Len(content)))
    IN  IF new_header.include_len > fileHeader.snap_length
        THEN [ok |-> FALSE, out |-> <<>>, packet |-> new_header]
        ELSE [ok |-> TRUE,
              out |-> PacketHeader_write(new_header,
                                         fileHeader.magic_number_and_endianness.endianness,
                                         fileHeader.version) \o content,
              packet |-> new_header]

\* a Write + Seek target (a file, a Cursor): write_all at offset at overwrites
\* what is there and extends the target past its end
write_all_at(target, at, bytes) ==
    [bytes |-> SubSeq(target, 1, at) \o bytes
               \o SubSeq(target, at + Len(bytes) + 1, Len(target)),
     pos |-> at + Len(bytes)]
\* struct SyncPcapWriter, with the offset of its target
SyncPcapWriter(target, at, header, dirty) ==
    [target |-> target, pos |-> at, header |-> header, requires_header_rewrite |-> dirty]
\* SyncPcapWriter::new on an empty target
SyncPcapWriter_new(header) ==
    SyncPcapWriter(PcapFileHeader_into_bytes(header), 24, header, FALSE)
\* mutant: the flag is raised but the snap length of the header is left alone
SyncPcapWriter_write_header_keeps_snap_length(self, header, content) ==
    LET new_header == PacketHeader(header.timestamp, Len(content),
                                   unwrap_or(header.orig_len, Len(content)))
        exceeds == new_header.include_len > self.header.snap_length
        w == write_all_at(self.target, self.pos,
                          PacketHeader_write(new_header,
                                             self.header.magic_number_and_endianness.endianness,
                                             self.header.version) \o content)
    IN  SyncPcapWriter(w.bytes, w.pos, self.header, self.requires_header_rewrite \/ exceeds)
\* SyncPcapWriter::write_header
SyncPcapWriter_write_header(self, header, content) ==
    LET new_header == PacketHeader(header.timestamp, Len(content),
                                   unwrap_or(header.orig_len, Len(content)))
        exceeds == new_header.include_len > self.header.snap_length
        file_header == IF exceeds
                       THEN [self.header EXCEPT !.snap_length = new_header.include_len]
                       ELSE self.header
        w == write_all_at(self.target, self.pos,
                          PacketHeader_write(new_header,
                                             file_header.magic_number_and_endianness.endianness,
                                             file_header.version) \o content)
    IN  SyncPcapWriter(w.bytes, w.pos, file_header, self.requires_header_rewrite \/ exceeds)
\* SyncPcapWriter::finish
SyncPcapWriter_finish(self) ==
    LET w == write_all_at(self.target, 0, PcapFileHeader_into_bytes(self.header))
    IN  IF ~self.requires_header_rewrite THEN self
        ELSE SyncPcapWriter(w.bytes, w.pos, self.header, self.requires_header_rewrite)

NoPacketHeader == PacketHeader(PacketTimestamp(0, 0), 0, 0)
\* Result<Option<(PacketHeader, &[u8])>, PcapParseError> of one next_packet call,
\* with start, the offset at which the call began
RdResult(kind, err, hdr, data, snap, incl, start) ==
    [kind |-> kind, err |-> err, header |-> hdr, data |-> data,
     snap_length |-> snap, incl_len |-> incl, start |-> start]
RdNone == RdResult("none", "", NoPacketHeader, <<>>, 0, 0, 0)

\* mutant: the packet body is read before the length is validated
SyncPcapReader_next_packet_body_first(s, p, file_header) ==
    LET h == read_exact(s, p, 16)
        packet_header == PacketHeader_parse_bytes(h.bytes,
                             file_header.magic_number_and_endianness.endianness,
                             file_header.version)
        body == read_exact(s, h.pos, packet_header.include_len)
    IN  IF ~h.ok
        THEN [res |-> RdResult("None", "", NoPacketHeader, <<>>, 0, 0, p), pos |-> h.pos]
        ELSE IF ~body.ok
        THEN [res |-> RdResult("Err", "IO", NoPacketHeader, <<>>, 0, 0, p), pos |-> body.pos]
        ELSE IF packet_header.include_len > file_header.snap_length
        THEN [res |-> RdResult("Err", "InvalidPacketLength", NoPacketHeader, <<>>,
                               file_header.snap_length, packet_header.include_len, p),
              pos |-> body.pos]
        ELSE [res |-> RdResult("Some", "", packet_header, body.bytes, 0, 0, p),
              pos |-> body.pos]

\* SyncPcapReader::next_packet on the stream s at offset p
SyncPcapReader_next_packet(s, p, file_header) ==
    LET h == read_exact(s, p, 16)
        packet_header == PacketHeader_parse_bytes(h.bytes,
                             file_header.magic_number_and_endianness.endianness,
                             file_header.version)
        body == read_exact(s, h.pos, packet_header.include_len)
    IN  IF ~h.ok
        THEN [res |-> RdResult("None", "", NoPacketHeader, <<>>, 0, 0, p), pos |-> h.pos]
        ELSE IF packet_header.include_len > file_header.snap_length
        THEN [res |-> RdResult("Err", "InvalidPacketLength", NoPacketHeader, <<>>,
                               file_header.snap_length, packet_header.include_len, p),
              pos |-> h.pos]
        ELSE IF ~body.ok
        THEN [res |-> RdResult("Err", "IO", NoPacketHeader, <<>>, 0, 0, p), pos |-> body.pos]
        ELSE [res |-> RdResult("Some", "", packet_header, body.bytes, 0, 0, p),
              pos |-> body.pos]

\* AsyncPcapReader::new: the file header, read with read_exact and try_from
AsyncPcapReader_new(s) ==
    LET r == read_exact(s, 0, 24)
    IN  IF ~r.ok
        THEN [ok |-> FALSE, err |-> "IO", bytes |-> <<>>, raw |-> 0,
              val |-> NoFileHeader, pos |-> r.pos]
        ELSE [pos |-> r.pos] @@ PcapFileHeader_try_from(r.bytes)
\* AsyncPcapReader::next_packet on the stream s at offset p
AsyncPcapReader_next_packet(s, p, file_header) ==
    LET h == read_exact(s, p, 16)
        packet_header == PacketHeader_parse_bytes(h.bytes,
                             file_header.magic_number_and_endianness.endianness,
                             file_header.version)
        body == read_exact(s, h.pos, packet_header.include_len)
    IN  IF ~h.ok
        THEN [res |-> RdResult("None", "", NoPacketHeader, <<>>, 0, 0, p), pos |-> h.pos]
        ELSE IF packet_header.include_len > file_header.snap_length
        THEN [res |-> RdResult("Err", "InvalidPacketLength", NoPacketHeader, <<>>,
                               file_header.snap_length, packet_header.include_len, p),
              pos |-> h.pos]
        ELSE IF ~body.ok
        THEN [res |-> RdResult("Err", "IO", NoPacketHeader, <<>>, 0, 0, p), pos |-> body.pos]
        ELSE [res |-> RdResult("Some", "", packet_header, body.bytes, 0, 0, p),
              pos |-> body.pos]

----------------------------------------------------------------------------
(* pcap_ng/options.rs *)

\* the codes of StandardOptions
StandardOptionCodes == {0, 1, 2988, 2989, 19372, 19373}
\* StandardOptions::is_custom
is_custom(code) == code \in {2988, 2989, 19372, 19373}

BlockOption(code, length, pen, value) ==
    [code |-> code, length |-> length, pen |-> pen, value |-> value]
NoBlockOption == BlockOption(0, 0, None32, <<>>)

\* BlockOption::new
BlockOption_new(option_code, pen, option_value) ==
    IF option_code \in StandardOptionCodes /\ is_custom(option_code) /\ ~pen.some
    THEN [ok |-> FALSE, err |-> "CustomRequiresPen", val |-> NoBlockOption]
    ELSE IF option_code \in StandardOptionCodes /\ ~is_custom(option_code) /\ pen.some
    THEN [ok |-> FALSE, err |-> "UnexpectedPen", val |-> NoBlockOption]
    ELSE IF option_code \notin StandardOptionCodes /\ pen.some
    THEN [ok |-> FALSE, err |-> "UnexpectedPen", val |-> NoBlockOption]
    ELSE [ok |-> TRUE, err |-> "",
          val |-> BlockOption(option_code, Len(option_value) % 65536, pen, option_value)]

\* BlockOption::padding_length
padding_length(option) == pad_length_to_32_bytes(option.length) - option.length

\* BlockOptions::write, the loop over the options
RECURSIVE BlockOptions_write_each(_, _)
BlockOptions_write_each(options, e) ==
    IF options = <<>>
    THEN <<>>
    ELSE LET option == Head(options)
         IN  u16_to_bytes(e, option.code)
             \o u16_to_bytes(e, option.length)
             \o (IF option.pen.some THEN u32_to_bytes(e, option.pen.v) ELSE <<>>)
             \o option.value
             \o [i \in 1..padding_length(option) |-> 0]
             \o BlockOptions_write_each(Tail(options), e)
\* BlockOptions::write
BlockOptions_write(options, e) ==
    BlockOptions_write_each(options, e) \o u16_to_bytes(e, 0) \o u16_to_bytes(e, 0)

\* BlockOptions::read_option_header
read_option_header(s, p, e) ==
    LET c == read_exact(s, p, 2)
        l == read_exact(s, c.pos, 2)
        option_code == u16_from_bytes(e, c.bytes)
        option_length == u16_from_bytes(e, l.bytes)
        n == read_exact(s, l.pos, 4)
    IN  IF ~c.ok
        THEN [ok |-> FALSE, none |-> FALSE, code |-> 0, length |-> 0, pen |-> None32,
              pos |-> c.pos]
        ELSE IF ~l.ok
        THEN [ok |-> FALSE, none |-> FALSE, code |-> 0, length |-> 0, pen |-> None32,
              pos |-> l.pos]
        ELSE IF option_code = 0 /\ option_length = 0
        THEN [ok |-> TRUE, none |-> TRUE, code |-> 0, length |-> 0, pen |-> None32,
              pos |-> l.pos]
        ELSE IF option_code \in StandardOptionCodes /\ is_custom(option_code)
        THEN IF ~n.ok
             THEN [ok |-> FALSE, none |-> FALSE, code |-> 0, length |-> 0, pen |-> None32,
                   pos |-> n.pos]
             ELSE [ok |-> TRUE, none |-> FALSE, code |-> option_code,
                   length |-> option_length, pen |-> Some32(u32_from_bytes(e, n.bytes)),
                   pos |-> n.pos]
        ELSE [ok |-> TRUE, none |-> FALSE, code |-> option_code, length |-> option_length,
              pen |-> None32, pos |-> l.pos]

\* BlockOptions::read_in: self is the list read so far
RECURSIVE BlockOptions_read_in(_, _, _, _)
BlockOptions_read_in(self, s, p, e) ==
    LET h == read_option_header(s, p, e)
        padded_length == pad_length_to_32_bytes(h.length)
        v == read_exact(s, h.pos, padded_length)
    IN  IF ~h.ok
        THEN [ok |-> FALSE, options |-> self, pos |-> h.pos]
        ELSE IF h.none
        THEN [ok |-> TRUE, options |-> self, pos |-> h.pos]
        ELSE IF ~v.ok
        THEN [ok |-> FALSE, options |-> self, pos |-> v.pos]
        ELSE BlockOptions_read_in(
                 Append(self, BlockOption(h.code, h.length, h.pen, SubSeq(v.bytes, 1, h.length))),
                 s, v.pos, e)

\* BlockOptions::read
BlockOptions_read(s, p, e) == BlockOptions_read_in(<<>>, s, p, e)

\* the end of BlockOptions::read_option: None when the list read is empty
some_unless_empty(r) ==
    [ok |-> r.ok, some |-> r.ok /\ r.options # <<>>, options |-> r.options, pos |-> r.pos]
\* BlockOptions::read_option: Option<BlockOptions> as (some, options)
BlockOptions_read_option(s, p, e) == some_unless_empty(BlockOptions_read_in(<<>>, s, p, e))

----------------------------------------------------------------------------
(* pcap_ng/blocks.rs and pcap_ng/blocks/ *)

Builds == {"debug", "release"}
\* usize a - b: an overflow panics in a debug build and wraps in a release
\* build, where the difference is then a large positive number
usize_sub(a, b, build) == [panic |-> a < b /\ build = "debug", positive |-> a # b]

\* <Endianness as ByteOrder>::u64_from_bytes, as two 32-bit halves
u64_from_bytes(e, b) ==
    IF e = "BigEndian"
    THEN [hi |-> from_be_bytes4(SubSeq(b, 1, 4)), lo |-> from_be_bytes4(SubSeq(b, 5, 8))]
    ELSE [hi |-> from_le_bytes4(SubSeq(b, 5, 8)), lo |-> from_le_bytes4(SubSeq(b, 1, 4))]

\* TryFrom<u16> for LinkType
LinkType_try_from_u16(value) ==
    IF value \in LinkTypes
    THEN [ok |-> TRUE, val |-> value, err |-> "", raw |-> 0]
    ELSE [ok |-> FALSE, val |-> 0, err |-> "InvalidLinkType", raw |-> value]

\* Endianness::from_pcap_ng_bytes
Endianness_from_pcap_ng_bytes(bytes) ==
    CASE bytes = <<26, 43, 60, 77>> -> [ok |-> TRUE, val |-> "BigEndian"]
      [] bytes = <<77, 60, 43, 26>> -> [ok |-> TRUE, val |-> "LittleEndian"]
      [] OTHER -> [ok |-> FALSE, val |-> ""]

BlockHeader(block_id, block_length) == [block_id |-> block_id, block_length |-> block_length]
\* BlockHeader::read
BlockHeader_read(s, p) ==
    LET i == read_exact(s, p, 4)
        l == read_exact(s, i.pos, 4)
    IN  IF ~i.ok THEN [ok |-> FALSE, header |-> BlockHeader(<<>>, <<>>), pos |-> i.pos]
        ELSE IF ~l.ok THEN [ok |-> FALSE, header |-> BlockHeader(<<>>, <<>>), pos |-> l.pos]
        ELSE [ok |-> TRUE, header |-> BlockHeader(i.bytes, l.bytes), pos |-> l.pos]
\* BlockHeader::parse_from_bytes
BlockHeader_parse_from_bytes(bytes) == BlockHeader(SubSeq(bytes, 1, 4), SubSeq(bytes, 5, 8))
\* BlockHeader::block_id_as_u32 and BlockHeader::block_length_as_u32
block_id_as_u32(header, e) == u32_from_bytes(e, header.block_id)
block_length_as_u32(header, e) == u32_from_bytes(e, header.block_length)
\* BlockHeader::matches_block_id for the block type with the given id
matches_block_id(header, id) ==
    header.block_id = to_le_bytes4(id) \/ header.block_id = to_be_bytes4(id)

\* Option<BlockOptions>
NoOptions == [some |-> FALSE, options |-> <<>>]
\* the options of a block: read when options_space > 0
read_block_options(positive, s, p, e) ==
    IF positive
    THEN BlockOptions_read_option(s, p, e)
    ELSE [ok |-> TRUE, some |-> FALSE, options |-> <<>>, pos |-> p]

\* Result<block, PcapNgParseError> or a panic, with the reader offset and the
\* packet buffer the call leaves behind
NoBlock == [kind |-> "none"]
NgErr(err, p, buffer) ==
    [ok |-> FALSE, err |-> err, block |-> NoBlock, pos |-> p, buffer |-> buffer]
NgOk(block, p, buffer) ==
    [ok |-> TRUE, err |-> "", block |-> block, pos |-> p, buffer |-> buffer]

\* the end of read_with_header once the options o are read: the 4 footer bytes
\* and the block with its options
read_footer(block, o, s, buffer) ==
    LET f == read_exact(s, o.pos, 4)
    IN  IF ~o.ok THEN NgErr("OptionParseError", o.pos, buffer)
        ELSE IF ~f.ok THEN NgErr("IO", f.pos, buffer)
        ELSE NgOk([block EXCEPT !.options = [some |-> o.some, options |-> o.options]],
                  f.pos, buffer)
\* the end of read_with_header from the computation of options_space on
read_options_and_footer(block, options_space, s, p, byte_order, buffer) ==
    IF options_space.panic THEN NgErr("Panic", p, buffer)
    ELSE read_footer(block, read_block_options(options_space.positive, s, p, byte_order),
                     s, buffer)

\* Err(PcapNgParseError::InvalidEndianness { got })
InvalidEndianness(got, p, buffer) ==
    [ok |-> FALSE, err |-> "InvalidEndianness", got |-> got, block |-> NoBlock, pos |-> p,
     buffer |-> buffer]
\* Option<Endianness>::None
NoByteOrder == "None"

\* SectionHeaderBlock::read_with_header that takes the byte order of the caller
\* when one is given
SectionHeaderBlock_read_in_caller_order(s, p, header, _byte_order, buffer, build) ==
    LET d == read_exact(s, p, 16)
        bo == IF _byte_order # NoByteOrder THEN [ok |-> TRUE, val |-> _byte_order]
              ELSE Endianness_from_pcap_ng_bytes(SubSeq(d.bytes, 1, 4))
        byte_order == bo.val
        block_length == block_length_as_u32(header, byte_order)
        sl == SubSeq(d.bytes, 9, 16)
    IN  IF header.block_id # PCAP_NG_MAGIC THEN NgErr("UnexpectedBlockId", p, buffer)
        ELSE IF ~d.ok THEN NgErr("IO", d.pos, buffer)
        ELSE IF ~bo.ok THEN InvalidEndianness(SubSeq(d.bytes, 1, 4), d.pos, buffer)
        ELSE read_options_and_footer(
                 [kind |-> "SectionHeader", block_length |-> block_length,
                  byte_order |-> byte_order,
                  version |-> Version_parse(SubSeq(d.bytes, 5, 8), byte_order),
                  section_length |->
                      IF sl = <<255, 255, 255, 255, 255, 255, 255, 255>>
                      THEN [some |-> FALSE, v |-> [hi |-> 0, lo |-> 0]]
                      ELSE [some |-> TRUE, v |-> u64_from_bytes(byte_order, sl)],
                  options |-> NoOptions],
                 usize_sub(block_length, 24, build), s, d.pos, byte_order, buffer)

\* SectionHeaderBlock::read_with_header
SectionHeaderBlock_read_with_header(s, p, header, _byte_order, buffer, build) ==
    LET d == read_exact(s, p, 16)
        bo == Endianness_from_pcap_ng_bytes(SubSeq(d.bytes, 1, 4))
        byte_order == bo.val
        block_length == block_length_as_u32(header, byte_order)
        sl == SubSeq(d.bytes, 9, 16)
    IN  IF header.block_id # PCAP_NG_MAGIC THEN NgErr("UnexpectedBlockId", p, buffer)
        ELSE IF ~d.ok THEN NgErr("IO", d.pos, buffer)
        ELSE IF ~bo.ok THEN InvalidEndianness(SubSeq(d.bytes, 1, 4), d.pos, buffer)
        ELSE read_options_and_footer(
                 [kind |-> "SectionHeader", block_length |-> block_length,
                  byte_order |-> byte_order,
                  version |-> Version_parse(SubSeq(d.bytes, 5, 8), byte_order),
                  section_length |->
                      IF sl = <<255, 255, 255, 255, 255, 255, 255, 255>>
                      THEN [some |-> FALSE, v |-> [hi |-> 0, lo |-> 0]]
                      ELSE [some |-> TRUE, v |-> u64_from_bytes(byte_order, sl)],
                  options |-> NoOptions],
                 usize_sub(block_length, 24, build), s, d.pos, byte_order, buffer)

\* SectionHeaderBlock::read_from_reader
SectionHeaderBlock_read_from_reader(s, p, buffer, build) ==
    LET h == BlockHeader_read(s, p)
    IN  IF ~h.ok THEN NgErr("IO", h.pos, buffer)
        ELSE SectionHeaderBlock_read_with_header(s, h.pos, h.header, NoByteOrder, buffer,
                                                 build)

\* InterfaceDescriptionBlock::read_with_header
InterfaceDescriptionBlock_read_with_header(s, p, header, byte_order, buffer, build) ==
    LET c == read_exact(s, p, 8)
        lt == LinkType_try_from_u16(u16_from_bytes(byte_order, SubSeq(c.bytes, 1, 2)))
        block_length == block_length_as_u32(header, byte_order)
    IN  IF ~matches_block_id(header, 1) THEN NgErr("UnexpectedBlockId", p, buffer)
        ELSE IF ~c.ok THEN NgErr("IO", c.pos, buffer)
        ELSE IF ~lt.ok THEN NgErr("InvalidLinkType", c.pos, buffer)
        ELSE read_options_and_footer(
                 [kind |-> "InterfaceDescription", block_length |-> block_length,
                  link_type |-> lt.val, reserved |-> SubSeq(c.bytes, 3, 4),
                  snap_length |-> u32_from_bytes(byte_order, SubSeq(c.bytes, 5, 8)),
                  options |-> NoOptions],
                 usize_sub(block_length, 20, build), s, c.pos, byte_order, buffer)

\* the packet buffer after read_exact(&mut buffer[..padded_length]) delivered
\* bytes; after a failed read the stream is at its end and the buffer is not
\* looked at again, so the readers below pass it on as it was
fill_buffer(buffer, bytes) == bytes \o SubSeq(buffer, Len(bytes) + 1, Len(buffer))

\* EnhancedPacket::read_with_header_no_block_check with the content taken up to
\* the padded length
EnhancedPacket_read_keeps_padding(s, p, header, byte_order, buffer, build) ==
    LET b == read_exact(s, p, 20)
        captured_length == u32_from_bytes(byte_order, SubSeq(b.bytes, 13, 16))
        block_length == block_length_as_u32(header, byte_order)
        padded_length == pad_length_to_32_bytes(captured_length)
        c == read_exact(s, b.pos, padded_length)
        filled == fill_buffer(buffer, c.bytes)
    IN  IF ~b.ok THEN NgErr("IO", b.pos, buffer)
        ELSE IF ~c.ok THEN NgErr("IO", c.pos, buffer)
        ELSE read_options_and_footer(
                 [kind |-> "EnhancedPacket", block_length |-> block_length,
                  interface_id |-> u32_from_bytes(byte_order, SubSeq(b.bytes, 1, 4)),
                  timestamp_high |-> u32_from_bytes(byte_order, SubSeq(b.bytes, 5, 8)),
                  timestamp_low |-> u32_from_bytes(byte_order, SubSeq(b.bytes, 9, 12)),
                  captured_length |-> captured_length,
                  original_length |-> u32_from_bytes(byte_order, SubSeq(b.bytes, 17, 20)),
                  content |-> SubSeq(filled, 1, padded_length),
                  options |-> NoOptions],
                 usize_sub(block_length, 32 + padded_length, build), s, c.pos, byte_order,
                 filled)

\* EnhancedPacket::read_with_header_no_block_check
EnhancedPacket_read_with_header_no_block_check(s, p, header, byte_order, buffer, build) ==
    LET b == read_exact(s, p, 20)
        captured_length == u32_from_bytes(byte_order, SubSeq(b.bytes, 13, 16))
        block_length == block_length_as_u32(header, byte_order)
        padded_length == pad_length_to_32_bytes(captured_length)
        c == read_exact(s, b.pos, padded_length)
        filled == fill_buffer(buffer, c.bytes)
    IN  IF ~b.ok THEN NgErr("IO", b.pos, buffer)
        ELSE IF ~c.ok THEN NgErr("IO", c.pos, buffer)
        ELSE read_options_and_footer(
                 [kind |-> "EnhancedPacket", block_length |-> block_length,
                  interface_id |-> u32_from_bytes(byte_order, SubSeq(b.bytes, 1, 4)),
                  timestamp_high |-> u32_from_bytes(byte_order, SubSeq(b.bytes, 5, 8)),
                  timestamp_low |-> u32_from_bytes(byte_order, SubSeq(b.bytes, 9, 12)),
                  captured_length |-> captured_length,
                  original_length |-> u32_from_bytes(byte_order, SubSeq(b.bytes, 17, 20)),
                  content |-> SubSeq(filled, 1, captured_length),
                  options |-> NoOptions],
                 usize_sub(block_length, 32 + padded_length, build), s, c.pos, byte_order,
                 filled)

\* EnhancedPacket::read_with_header, called with Some(byte_order)
EnhancedPacket_read_with_header(s, p, header, byte_order, buffer, build) ==
    IF ~matches_block_id(header, 6) THEN NgErr("UnexpectedBlockId", p, buffer)
    ELSE EnhancedPacket_read_with_header_no_block_check(s, p, header, byte_order, buffer,
                                                        build)

\* EnhancedPacket::write: the bytes it sends to the writer
EnhancedPacket_write(self, byte_order) ==
    LET padding == pad_length_to_32_bytes(Len(self.content)) - Len(self.content)
        buffer == u32_to_bytes(byte_order, self.interface_id)
                  \o u32_to_bytes(byte_order, self.timestamp_high)
                  \o u32_to_bytes(byte_order, self.timestamp_low)
                  \o u32_to_bytes(byte_order, self.captured_length)
                  \o u32_to_bytes(byte_order, self.original_length)
                  \o self.content
                  \o [i \in 1..padding |-> 0]
                  \o (IF self.options.some
                      THEN BlockOptions_write(self.options.options, byte_order)
                      ELSE <<>>)
        packet_length == Len(buffer) + 12
    IN  u32_to_bytes(byte_order, 6) \o u32_to_bytes(byte_order, packet_length)
        \o buffer
        \o u32_to_bytes(byte_order, 6)

\* SimplePacket::read_with_header_no_block_check
SimplePacket_read_with_header_no_block_check(s, p, header, byte_order, buffer) ==
    LET l == read_exact(s, p, 4)
        original_length == u32_from_bytes(byte_order, l.bytes)
        block_length == block_length_as_u32(header, byte_order)
        padded_length == pad_length_to_32_bytes(original_length)
        c == read_exact(s, l.pos, padded_length)
        filled == fill_buffer(buffer, c.bytes)
        f == read_exact(s, c.pos, 4)
    IN  IF ~l.ok THEN NgErr("IO", l.pos, buffer)
        ELSE IF ~c.ok THEN NgErr("IO", c.pos, buffer)
        ELSE IF ~f.ok THEN NgErr("IO", f.pos, filled)
        ELSE IF block_length > Len(filled) THEN NgErr("Panic", f.pos, filled)
        ELSE NgOk([kind |-> "SimplePacket", block_length |-> block_length,
                   original_length |-> original_length,
                   content |-> SubSeq(filled, 1, block_length)],
                  f.pos, filled)

\* Records::read_from_reader: the records and the number of bytes read
RECURSIVE Records_read_from_reader(_, _, _, _, _)
Records_read_from_reader(records, total_length, s, p, byte_order) ==
    LET h == read_exact(s, p, 4)
        record_type == u16_from_bytes(byte_order, SubSeq(h.bytes, 1, 2))
        record_length == u16_from_bytes(byte_order, SubSeq(h.bytes, 3, 4))
        padded_length == pad_length_to_32_bytes(record_length)
        d == read_exact(s, h.pos, padded_length)
    IN  IF ~h.ok
        THEN [ok |-> TRUE, records |-> records, total_length |-> total_length, pos |-> h.pos]
        ELSE IF record_length = 0
        THEN [ok |-> TRUE, records |-> records, total_length |-> total_length + 4,
              pos |-> h.pos]
        ELSE IF ~d.ok
        THEN [ok |-> FALSE, records |-> records, total_length |-> total_length + 4,
              pos |-> d.pos]
        ELSE Records_read_from_reader(
                 Append(records, [record_type |-> record_type,
                                  record_length |-> record_length,
                                  record_data |-> SubSeq(d.bytes, 1, record_length)]),
                 total_length + 4 + padded_length, s, d.pos, byte_order)

\* NameResolutionBlock::read_with_header
NameResolutionBlock_read_with_header(s, p, header, byte_order, buffer, build) ==
    LET block_length == block_length_as_u32(header, byte_order)
        r == Records_read_from_reader(<<>>, 0, s, p, byte_order)
    IN  IF ~matches_block_id(header, 4) THEN NgErr("UnexpectedBlockId", p, buffer)
        ELSE IF ~r.ok THEN NgErr("IO", r.pos, buffer)
        ELSE read_options_and_footer(
                 [kind |-> "NameResolution", block_length |-> block_length,
                  records |-> r.records, options |-> NoOptions],
                 usize_sub(block_length, 12 + r.total_length, build), s, r.pos, byte_order,
                 buffer)

\* GenericBlock::read_with_header
GenericBlock_read_with_header(s, p, header, byte_order, buffer) ==
    LET block_length == block_length_as_u32(header, byte_order)
        d == IF block_length > 12
             THEN read_exact(s, p, block_length - 12)
             ELSE [ok |-> TRUE, bytes |-> <<>>, pos |-> p]
        f == read_exact(s, d.pos, 4)
    IN  IF ~d.ok THEN NgErr("IO", d.pos, buffer)
        ELSE IF ~f.ok THEN NgErr("IO", f.pos, buffer)
        ELSE NgOk([kind |-> "Generic", block_id |-> block_id_as_u32(header, byte_order),
                   block_length |-> block_length,
                   data |-> [some |-> block_length > 12, bytes |-> d.bytes]],
                  f.pos, buffer)

\* PcapNgBlock::read
PcapNgBlock_read(s, p, header, byte_order, buffer, build) ==
    LET block_id == block_id_as_u32(header, byte_order)
    IN  CASE block_id = 6 ->
               EnhancedPacket_read_with_header_no_block_check(s, p, header, byte_order,
                                                              buffer, build)
          [] block_id = 3 ->
               SimplePacket_read_with_header_no_block_check(s, p, header, byte_order, buffer)
          [] block_id = 168627466 ->
               SectionHeaderBlock_read_with_header(s, p, header, byte_order, buffer, build)
          [] block_id = 1 ->
               InterfaceDescriptionBlock_read_with_header(s, p, header, byte_order, buffer,
                                                          build)
          [] block_id = 4 ->
               NameResolutionBlock_read_with_header(s, p, header, byte_order, buffer, build)
          [] OTHER -> GenericBlock_read_with_header(s, p, header, byte_order, buffer)

\* SimplePacket::read_with_header, called with Some(byte_order)
SimplePacket_read_with_header(s, p, header, byte_order, buffer, build) ==
    IF ~matches_block_id(header, 3) THEN NgErr("UnexpectedBlockId", p, buffer)
    ELSE SimplePacket_read_with_header_no_block_check(s, p, header, byte_order, buffer)

\* what async_read_with_header returns: the result r of read_with_header on the
\* Cursor over the block content, the reader being at offset p
async_read_result(r, p) == [r EXCEPT !.pos = p]
\* the Vec<u8> of block_length - 8 bytes that async_read_with_header fills with
\* read_exact and wraps in a Cursor
async_content(s, p, header, byte_order) ==
    SubSeq(s, p + 1, p + block_length_as_u32(header, byte_order) - 8)
\* TokioAsyncBlock::async_read_with_header, the default implementation, for the
\* block type with the given id, on_cursor being what its read_with_header
\* returns on the Cursor: the block_length - 8 content bytes are read into
\* memory (the subtraction panics in a debug build; in a release build it wraps
\* and vec![0u8; _] panics on the capacity), then read_with_header runs on them
async_read_with_header(id, on_cursor, s, p, header, byte_order, buffer) ==
    IF ~matches_block_id(header, id) THEN NgErr("UnexpectedBlockId", p, buffer)
    ELSE IF block_length_as_u32(header, byte_order) < 8 THEN NgErr("Panic", p, buffer)
    ELSE IF ~read_exact(s, p, block_length_as_u32(header, byte_order) - 8).ok
    THEN NgErr("IO", Len(s), buffer)
    ELSE async_read_result(on_cursor, p + block_length_as_u32(header, byte_order) - 8)

\* GenericBlock::read_async_with_header
GenericBlock_read_async_with_header(s, p, header, byte_order, buffer) ==
    LET block_length == block_length_as_u32(header, byte_order)
        d == IF block_length > 12
             THEN read_exact(s, p, block_length - 12)
             ELSE [ok |-> TRUE, bytes |-> <<>>, pos |-> p]
        f == read_exact(s, d.pos, 4)
    IN  IF ~d.ok THEN NgErr("IO", d.pos, buffer)
        ELSE IF ~f.ok THEN NgErr("IO", f.pos, buffer)
        ELSE NgOk([kind |-> "Generic", block_id |-> block_id_as_u32(header, byte_order),
                   block_length |-> block_length,
                   data |-> [some |-> block_length > 12, bytes |-> d.bytes]],
                  f.pos, buffer)

\* PcapNgBlock::read_async, every block type taking the default
\* async_read_with_header (SectionHeaderBlock's own implementation in header.rs
\* has the 3 parameters of an earlier trait)
PcapNgBlock_read_async(s, p, header, byte_order, buffer, build) ==
    LET block_id == block_id_as_u32(header, byte_order)
    IN  CASE block_id = 168627466 ->
               async_read_with_header(
                   168627466,
                   SectionHeaderBlock_read_with_header(
                       async_content(s, p, header, byte_order), 0, header, byte_order,
                       buffer, build),
                   s, p, header, byte_order, buffer)
          [] block_id = 1 ->
               async_read_with_header(
                   1,
                   InterfaceDescriptionBlock_read_with_header(
                       async_content(s, p, header, byte_order), 0, header, byte_order,
                       buffer, build),
                   s, p, header, byte_order, buffer)
          [] block_id = 3 ->
               async_read_with_header(
                   3,
                   SimplePacket_read_with_header(
                       async_content(s, p, header, byte_order), 0, header, byte_order,
                       buffer, build),
                   s, p, header, byte_order, buffer)
          [] block_id = 4 ->
               async_read_with_header(
                   4,
                   NameResolutionBlock_read_with_header(
                       async_content(s, p, header, byte_order), 0, header, byte_order,
                       buffer, build),
                   s, p, header, byte_order, buffer)
          [] block_id = 6 ->
               async_read_with_header(
                   6,
                   EnhancedPacket_read_with_header(
                       async_content(s, p, header, byte_order), 0, header, byte_order,
                       buffer, build),
                   s, p, header, byte_order, buffer)
          [] OTHER -> GenericBlock_read_async_with_header(s, p, header, byte_order, buffer)

----------------------------------------------------------------------------
(* pcap_ng/sync/mod.rs *)

\* SyncPcapNgReader::new_with_section on the result r of reading the first block
SyncPcapNgReader_new_with_section(r) ==
    [ok |-> r.ok, err |-> r.err, current_section |-> r.block, interfaces |-> <<>>,
     pos |-> r.pos]
\* SyncPcapNgReader::new
SyncPcapNgReader_new(s, build) ==
    SyncPcapNgReader_new_with_section(SectionHeaderBlock_read_from_reader(s, 0, <<>>, build))

\* Result<Option<PcapNgBlock>, PcapNgParseError> of next_block, with the offset
\* the call began at and the byte order it handed to PcapNgBlock::read
NgResult(kind, err, block, start, order) ==
    [kind |-> kind, err |-> err, block |-> block, start |-> start, order |-> order]
NgNone == NgResult("none", "", NoBlock, 0, "")

\* mutant: a new Section Header Block leaves the interface table alone
SyncPcapNgReader_next_block_no_clear(self, start, r) ==
    IF ~r.ok
    THEN [res |-> NgResult(IF r.err = "Panic" THEN "Panic" ELSE "Err", r.err, NoBlock, start,
                           self.current_section.byte_order),
          self |-> [self EXCEPT !.buffer = r.buffer], pos |-> r.pos]
    ELSE [res |-> NgResult("Some", "", r.block, start, self.current_section.byte_order),
          self |-> [current_section |->
                        IF r.block.kind = "SectionHeader" THEN r.block
                        ELSE self.current_section,
                    interfaces |->
                        IF r.block.kind = "InterfaceDescription"
                        THEN Append(self.interfaces, r.block)
                        ELSE self.interfaces,
                    buffer |-> r.buffer],
          pos |-> r.pos]

\* mutant: a new Section Header Block does not replace the current section
SyncPcapNgReader_next_block_stale_section(self, start, r) ==
    IF ~r.ok
    THEN [res |-> NgResult(IF r.err = "Panic" THEN "Panic" ELSE "Err", r.err, NoBlock, start,
                           self.current_section.byte_order),
          self |-> [self EXCEPT !.buffer = r.buffer], pos |-> r.pos]
    ELSE [res |-> NgResult("Some", "", r.block, start, self.current_section.byte_order),
          self |-> [current_section |-> self.current_section,
                    interfaces |->
                        IF r.block.kind = "InterfaceDescription"
                        THEN Append(self.interfaces, r.block)
                        ELSE IF r.block.kind = "SectionHeader" THEN <<>>
                        ELSE self.interfaces,
                    buffer |-> r.buffer],
          pos |-> r.pos]

\* SyncPcapNgReader::next_block from the result r of PcapNgBlock::read on: the
\* error is passed on, an Interface Description Block is pushed, a Section
\* Header Block clears the table and becomes the current section
SyncPcapNgReader_next_block_result(self, start, r) ==
    IF ~r.ok
    THEN [res |-> NgResult(IF r.err = "Panic" THEN "Panic" ELSE "Err", r.err, NoBlock, start,
                           self.current_section.byte_order),
          self |-> [self EXCEPT !.buffer = r.buffer], pos |-> r.pos]
    ELSE [res |-> NgResult("Some", "", r.block, start, self.current_section.byte_order),
          self |-> [current_section |->
                        IF r.block.kind = "SectionHeader" THEN r.block
                        ELSE self.current_section,
                    interfaces |->
                        IF r.block.kind = "InterfaceDescription"
                        THEN Append(self.interfaces, r.block)
                        ELSE IF r.block.kind = "SectionHeader" THEN <<>>
                        ELSE self.interfaces,
                    buffer |-> r.buffer],
          pos |-> r.pos]

\* SyncPcapNgReader::next_block
SyncPcapNgReader_next_block(s, p, self, build) ==
    LET h == read_exact(s, p, 8)
    IN  IF ~h.ok
        THEN [res |-> NgResult("None", "", NoBlock, p, ""), self |-> self, pos |-> h.pos]
        ELSE SyncPcapNgReader_next_block_result(
                 self, p,
                 PcapNgBlock_read(s, h.pos, BlockHeader_parse_from_bytes(h.bytes),
                                  self.current_section.byte_order, self.buffer, build))

----------------------------------------------------------------------------
\* the (AnyPacketHeader, content) pair next_packet makes of a packet block
AnyPacket(block) ==
    IF block.kind = "EnhancedPacket"
    THEN [header |-> [kind |-> "PcapNgEnhanced", block_length |-> block.block_length,
                      original_length |-> block.original_length,
                      interface_id |-> block.interface_id,
                      timestamp_high |-> block.timestamp_high,
                      timestamp_low |-> block.timestamp_low,
                      captured_length |-> block.captured_length,
                      options |-> block.options],
          content |-> block.content]
    ELSE [header |-> [kind |-> "PcapNgSimple", block_length |-> block.block_length,
                      original_length |-> block.original_length],
          content |-> block.content]
\* Result<Option<(AnyPacketHeader, Vec<u8>)>, PcapNgParseError> of next_packet,
\* with the offset the call began at and the blocks it fetched
NgPacketResult(kind, err, packet, start, fetched) ==
    [kind |-> kind, err |-> err, packet |-> packet, start |-> start, fetched |-> fetched]
NgPacketNone == NgPacketResult("none", "", <<>>, 0, <<>>)

RECURSIVE SyncPcapNgReader_next_packet(_, _, _, _, _, _)
\* one turn of the while loop of next_packet on the result r of next_block
SyncPcapNgReader_next_packet_block(s, start, build, fetched, r) ==
    IF r.res.kind # "Some"
    THEN [res |-> NgPacketResult(r.res.kind, r.res.err, <<>>, start, fetched),
          last |-> r.res, self |-> r.self, pos |-> r.pos]
    ELSE IF r.res.block.kind \in {"EnhancedPacket", "SimplePacket"}
    THEN [res |-> NgPacketResult("Some", "", AnyPacket(r.res.block), start,
                                 Append(fetched, [block |-> r.res.block,
                                                  order |-> r.res.order,
                                                  start |-> r.res.start])),
          last |-> r.res, self |-> r.self, pos |-> r.pos]
    ELSE SyncPcapNgReader_next_packet(
             s, r.pos, r.self, start, build,
             Append(fetched, [block |-> r.res.block, order |-> r.res.order,
                              start |-> r.res.start]))
\* SyncPcapNgReader::next_packet; fetched are the blocks the call has fetched
SyncPcapNgReader_next_packet(s, p, self, start, build, fetched) ==
    SyncPcapNgReader_next_packet_block(s, start, build, fetched,
                                       SyncPcapNgReader_next_block(s, p, self, build))

----------------------------------------------------------------------------
(* lib.rs, utils.rs and any_reader.rs *)

\* PcapFileType::from_magic: Some(Pcap), Some(PcapNg) or None
PcapFileType_from_magic(magic) ==
    IF MagicNumberAndEndianness_try_from(magic).ok THEN "Pcap"
    ELSE IF magic = PCAP_NG_MAGIC THEN "PcapNg"
    ELSE "None"

\* PeakableReader::new: one read call on the inner reader, which delivers n
\* bytes of the peek_size asked for
PeakableReader_new(s, peek_size, n) ==
    [peeked |-> SubSeq(s, 1, Min(n, Min(peek_size, Len(s)))),
     pos |-> Min(n, Min(peek_size, Len(s)))]
\* what the reads on a PeakableReader deliver: the peeked bytes, then the
\* rest of the inner reader
PeakableReader_read(peakable, s) == peakable.peeked \o SubSeq(s, peakable.pos + 1, Len(s))

\* struct PeakableReader: peeked is an Option<Vec<u8>>, pos the offset of the
\* inner reader
PeakableReader(some, peeked, p) == [some |-> some, peeked |-> peeked, pos |-> p]
\* PeakableReader::peak
PeakableReader_peak(self) ==
    IF self.some THEN [some |-> TRUE, val |-> self.peeked] ELSE [some |-> FALSE, val |-> <<>>]
\* <PeakableReader as Read>::read into a buffer of len bytes, on an inner
\* reader whose read call, if made, delivers n bytes: the reader after the
\* call and the bytes copied into the buffer
PeakableReader_read_buf(self, s, len, n) ==
    LET to_read == Min(len, Len(self.peeked))
        got == Min(n, Min(len, Len(s) - self.pos))
    IN  IF self.some
        THEN [self |-> IF to_read = Len(self.peeked)
                       THEN PeakableReader(FALSE, <<>>, self.pos)
                       ELSE PeakableReader(TRUE,
                                           SubSeq(self.peeked, to_read + 1, Len(self.peeked)),
                                           self.pos),
              bytes |-> SubSeq(self.peeked, 1, to_read)]
        ELSE [self |-> PeakableReader(FALSE, <<>>, self.pos + got),
              bytes |-> SubSeq(s, self.pos + 1, self.pos + got)]

\* Result<SyncAnyPcapReaderInner, AnyPcapReaderError> with file_type()
AnyResult(ok, err, file_type, reader) ==
    [ok |-> ok, err |-> err, file_type |-> file_type, reader |-> reader]
\* the Pcap arm of SyncAnyPcapReaderInner::new once the file header is read
SyncAnyPcapReaderInner_new_pcap(header) ==
    IF header.ok THEN AnyResult(TRUE, "", "Pcap", header.val)
    ELSE AnyResult(FALSE, "PcapError", "", header.err)
\* the PcapNg arm of SyncAnyPcapReaderInner::new once the first block is read
SyncAnyPcapReaderInner_new_pcap_ng(section) ==
    IF section.ok THEN AnyResult(TRUE, "", "PcapNg", section.block)
    ELSE IF section.err = "Panic" THEN AnyResult(FALSE, "Panic", "", section.err)
    ELSE AnyResult(FALSE, "PcapNgError", "", section.err)
\* SyncAnyPcapReaderInner::new on a reader whose first read call delivers n bytes
SyncAnyPcapReaderInner_new(s, n, build) ==
    LET peakable == PeakableReader_new(s, 4, n)
        peak == peakable.peeked
        file_type == PcapFileType_from_magic(SubSeq(peak, 1, 4))
    IN  IF Len(peak) < 4 THEN AnyResult(FALSE, "IOError", "", "UnexpectedEof")
        ELSE IF file_type = "None" THEN AnyResult(FALSE, "InvalidPcapFormat", "", "")
        ELSE IF file_type = "Pcap"
        THEN SyncAnyPcapReaderInner_new_pcap(
                 PcapFileHeader_read(PeakableReader_read(peakable, s), 0))
        ELSE SyncAnyPcapReaderInner_new_pcap_ng(
                 SectionHeaderBlock_read_from_reader(PeakableReader_read(peakable, s), 0,
                                                     <<>>, build))

\* the reader a SyncAnyPcapReader holds: Pcap(SyncPcapReader) with its file
\* header or PcapNg(SyncPcapNgReader) with its section, at offset pos of the
\* underlying stream
AnyReader(ok, err, file_type, header, ng, p) ==
    [ok |-> ok, err |-> err, file_type |-> file_type, header |-> header, ng |-> ng, pos |-> p]
\* SyncPcapReader::new_with_header on the file header read
AnyReader_pcap(header) ==
    AnyReader(header.ok, header.err, "Pcap", header.val,
              [current_section |-> NoBlock, interfaces |-> <<>>, buffer |-> <<>>], header.pos)
\* SyncPcapNgReader::new_with_section on the first block read
AnyReader_pcap_ng(section) ==
    AnyReader(section.ok, section.err, "PcapNg", NoFileHeader,
              [current_section |-> section.current_section,
               interfaces |-> section.interfaces, buffer |-> <<>>], section.pos)
\* SyncAnyPcapReader::new on a reader whose first read call delivers n bytes:
\* the reader built by SyncAnyPcapReaderInner::new
SyncAnyPcapReader_new(s, n, build) ==
    IF ~SyncAnyPcapReaderInner_new(s, n, build).ok
    THEN AnyReader(FALSE, SyncAnyPcapReaderInner_new(s, n, build).err, "", NoFileHeader,
                   [current_section |-> NoBlock, interfaces |-> <<>>, buffer |-> <<>>], 0)
    ELSE IF SyncAnyPcapReaderInner_new(s, n, build).file_type = "Pcap"
    THEN AnyReader_pcap(PcapFileHeader_read(PeakableReader_read(PeakableReader_new(s, 4, n), s),
                                            0))
    ELSE AnyReader_pcap_ng(
             SyncPcapNgReader_new_with_section(
                 SectionHeaderBlock_read_from_reader(
                     PeakableReader_read(PeakableReader_new(s, 4, n), s), 0, <<>>, build)))

\* Result<Option<AnyPcapPacket>, AnyPcapReaderError> of next_packet
AnyPacketResult(kind, err, packet) == [kind |-> kind, err |-> err, packet |-> packet]
\* the Pcap arm of SyncAnyPcapReader::next_packet on the result r of
\* SyncPcapReader::next_packet
SyncAnyPcapReader_next_packet_pcap(self, r) ==
    [res |-> IF r.res.kind = "Some"
             THEN AnyPacketResult("Some", "",
                                  [header |-> [kind |-> "Pcap", header |-> r.res.header],
                                   content |-> r.res.data])
             ELSE AnyPacketResult(r.res.kind, r.res.err, <<>>),
     self |-> [self EXCEPT !.pos = r.pos]]
\* the PcapNg arm, on the result r of SyncPcapNgReader::next_packet
SyncAnyPcapReader_next_packet_pcap_ng(self, r) ==
    [res |-> AnyPacketResult(r.res.kind, r.res.err, r.res.packet),
     self |-> [self EXCEPT !.ng = r.self, !.pos = r.pos]]
\* SyncAnyPcapReader::next_packet
SyncAnyPcapReader_next_packet(s, self, build) ==
    IF self.file_type = "Pcap"
    THEN SyncAnyPcapReader_next_packet_pcap(
             self, SyncPcapReader_next_packet(s, self.pos, self.header))
    ELSE SyncAnyPcapReader_next_packet_pcap_ng(
             self, SyncPcapNgReader_next_packet(s, self.pos, self.ng, self.pos, build, <<>>))

----------------------------------------------------------------------------
(* Pure-function harness: Init draws an input, one action applies the function *)

FnIdle == fnPc = "idle" /\ fnArg = <<>> /\ fnOut = <<>>
PcapIdle ==
    /\ stream = <<>> /\ pos = 0
    /\ wHeader = NoFileHeader /\ wState = "none" /\ wLast = "none" /\ written = <<>>
    /\ requires_header_rewrite = FALSE
    /\ rdHeader = NoFileHeader /\ rdState = "none" /\ rdLast = RdNone
    /\ rdGot = <<>>
NgIdle ==
    /\ profile = "release" /\ current_section = NoBlock /\ interfaces = <<>>
    /\ packet_buffer = <<>> /\ ngState = "none" /\ ngLast = NgNone /\ ngGot = <<>>
    /\ ngPacket = NgPacketNone

----------------------------------------------------------------------------
(* The pcap writer feeding the pcap reader *)

\* the file headers the writer is constructed with
WriterHeaders ==
    {PcapFileHeader(MagicNumberAndEndianness(m, e), v, 0, 0, snap, 1) :
        m \in MagicNumbers, e \in Endianness, v \in {Version(2, 2), Version(2, 4)},
        snap \in {1, MaxContentLen}}
\* packet contents: n bytes counting up from a seed
Content(n, seed) == [i \in 1..n |-> seed + i]
Seeds == {10, 20}

PcapWriteInit ==
    /\ mode = "pcapw" /\ FnIdle /\ NgIdle
    /\ wHeader \in WriterHeaders
    /\ stream = SeeklessPcapWriter_new(wHeader)
    /\ pos = 0 /\ wState = "open" /\ wLast = "none" /\ written = <<>>
    /\ requires_header_rewrite = FALSE
    /\ rdHeader = NoFileHeader /\ rdState = "none" /\ rdLast = RdNone /\ rdGot = <<>>

\* SeeklessPcapWriter::write_header
WriteHeader(header, content) ==
    /\ mode = "pcapw" /\ wState = "open" /\ Len(written) < MaxPackets
    /\ LET r == SeeklessPcapWriter_write_header(wHeader, header, content)
       IN  /\ stream' = stream \o r.out
           /\ wLast' = IF r.ok THEN "Ok" ELSE "Err"
           /\ written' = IF r.ok
                         THEN Append(written, [header |-> r.packet, data |-> content])
                         ELSE written
    /\ UNCHANGED <<mode, fnVars, ngVars, pos, wHeader, wState, requires_header_rewrite, rdHeader,
                   rdState, rdLast, rdGot>>

\* SeeklessPcapWriter::finish
Finish ==
    /\ mode = "pcapw" /\ wState = "open"
    /\ wState' = "finished"
    /\ UNCHANGED <<mode, fnVars, ngVars, stream, pos, wHeader, wCalls, written, rdHeader, rdState,
                   rdLast, rdGot>>

\* SyncPcapReader::new on the finished file
ReaderNew ==
    /\ mode \in {"pcapw", "pcapr"} /\ wState = "finished" /\ rdState = "none"
    /\ LET r == PcapFileHeader_read(stream, 0)
       IN  /\ pos' = r.pos
           /\ rdHeader' = r.val
           /\ rdState' = IF r.ok THEN "open" ELSE "failed"
           /\ rdLast' = IF r.ok THEN rdLast
                        ELSE RdResult("Err", r.err, NoPacketHeader, r.bytes, 0, r.raw, 0)
    /\ UNCHANGED <<mode, fnVars, ngVars, stream, wHeader, wState, wCalls, written, rdGot>>

\* SyncPcapReader::next_packet
NextPacket ==
    /\ mode \in {"pcapw", "pcapr"} /\ rdState = "open"
    /\ LET r == SyncPcapReader_next_packet(stream, pos, rdHeader)
       IN  /\ pos' = r.pos
           /\ rdLast' = r.res
           /\ rdGot' = IF r.res.kind = "Some"
                       THEN Append(rdGot, [header |-> r.res.header, data |-> r.res.data])
                       ELSE rdGot
    /\ UNCHANGED <<mode, fnVars, ngVars, stream, wHeader, wState, wCalls, written, rdHeader, rdState>>

PcapWriteNext ==
    \/ \E n \in 0..MaxContentLen, seed \in Seeds :
          \E orig \in {None32, Some32(n + 5)} :
             WriteHeader(NewPacketHeader(PacketTimestamp(seed, n), orig), Content(n, seed))
    \/ Finish
    \/ ReaderNew
    \/ NextPacket
SpecPcap == PcapWriteInit /\ [][PcapWriteNext]_vars

\* C1: reading back what the pcap writer produced yields file_header() equal to
\* the header written and exactly the written packets in order, then None, for
\* each magic number and endianness
C1_PcapWriteReadRoundTrip ==
    (mode = "pcapw" /\ rdState # "none") =>
        /\ rdState = "open"
        /\ rdHeader = wHeader
        /\ rdLast.kind # "Err"
        /\ Len(rdGot) <= Len(written)
        /\ \A i \in 1..Len(rdGot) : rdGot[i] = written[i]
        /\ (rdLast.kind = "None" => rdGot = written)

----------------------------------------------------------------------------
(* Crafted pcap streams fed to the pcap reader *)

\* the four magic patterns of a pcap file
CraftMagics ==
    {<<161, 178, 195, 212>>, <<212, 195, 178, 161>>,
     <<161, 178, 60, 77>>, <<77, 60, 178, 161>>}
\* 32-bit words that decode to a small value in one order and a large one in the other
CraftWords == {<<2, 0, 0, 0>>, <<0, 0, 0, 1>>}
CraftUnit == {<<1, 0, 0, 0>>, <<0, 0, 0, 1>>}
\* the lengths of a truncated trailing record header
PartialLens == 0..15

PcapReadInit ==
    /\ mode = "pcapr" /\ FnIdle /\ NgIdle
    /\ \E magic \in CraftMagics, v \in {Version(2, 2), Version(2, 4)}, snapW \in CraftUnit :
          LET e == MagicNumberAndEndianness_try_from(magic).val.endianness
          IN  stream = magic \o Version_write(v, e)
                       \o <<0, 0, 0, 0>> \o <<0, 0, 0, 0>> \o snapW
                       \o (IF e = "BigEndian" THEN <<0, 0, 0, 1>> ELSE <<1, 0, 0, 0>>)
    /\ pos = 0 /\ wHeader = NoFileHeader /\ wState = "open" /\ wLast = "none"
    /\ requires_header_rewrite = FALSE
    /\ written = <<>>
    /\ rdHeader = NoFileHeader /\ rdState = "none" /\ rdLast = RdNone /\ rdGot = <<>>

\* one more record on the wire: 16 header bytes and n body bytes
CraftRecord(third, fourth, n) ==
    /\ mode = "pcapr" /\ wState = "open" /\ Len(written) < MaxRecords
    /\ stream' = stream \o <<1, 0, 0, 0>> \o <<0, 0, 0, 0>> \o third \o fourth
                        \o Content(n, 10)
    /\ written' = Append(written, third \o fourth)
    /\ UNCHANGED <<mode, fnVars, ngVars, pos, wHeader, wState, wCalls, rdHeader, rdState, rdLast,
                   rdGot>>

\* the stream ends after p bytes of a further record header
CraftEnd(p) ==
    /\ mode = "pcapr" /\ wState = "open"
    /\ stream' = stream \o [i \in 1..p |-> 7]
    /\ wState' = "finished"
    /\ UNCHANGED <<mode, fnVars, ngVars, pos, wHeader, wCalls, written, rdHeader, rdState, rdLast,
                   rdGot>>

PcapReadNext ==
    \/ \E third \in CraftWords, fourth \in CraftUnit, n \in 0..MaxContentLen :
          CraftRecord(third, fourth, n)
    \/ \E p \in PartialLens : CraftEnd(p)
    \/ ReaderNew
    \/ NextPacket
SpecPcapRead == PcapReadInit /\ [][PcapReadNext]_vars

\* the packet header found at the offset where the last next_packet call began
LastHeaderBytes == SubSeq(stream, rdLast.start + 1, rdLast.start + 16)
LastDeclared ==
    PacketHeader_parse_bytes(LastHeaderBytes,
                             rdHeader.magic_number_and_endianness.endianness,
                             rdHeader.version)

\* C2: when the 16-byte packet header declares include_len > snap_length,
\* next_packet returns InvalidPacketLength{snap_length, incl_len} and has
\* consumed only the 16 header bytes
C2_SnapLengthCheckedBeforeBody ==
    (/\ mode = "pcapr" /\ rdState = "open" /\ rdLast.kind # "none"
     /\ Len(stream) - rdLast.start >= 16
     /\ LastDeclared.include_len > rdHeader.snap_length) =>
        /\ rdLast.kind = "Err" /\ rdLast.err = "InvalidPacketLength"
        /\ rdLast.snap_length = rdHeader.snap_length
        /\ rdLast.incl_len = LastDeclared.include_len
        /\ pos = rdLast.start + 16
\* an oversized record was refused while its body was still unread on the stream
C2_Witness ==
    /\ mode = "pcapr" /\ rdState = "open"
    /\ rdLast.kind = "Err" /\ rdLast.err = "InvalidPacketLength"
    /\ rdLast.incl_len = 2 /\ rdLast.snap_length = 1
    /\ pos = rdLast.start + 16 /\ Len(stream) >= pos + 2

----------------------------------------------------------------------------
(* PacketHeader::parse_bytes and PacketHeader::write *)

HeaderWords == {<<1, 0, 0, 0>>, <<0, 0, 0, 2>>, <<3, 0, 0, 4>>}
HeaderVersions ==
    {Version(1, 9), Version(2, 2), Version(2, 3), Version(2, 4), Version(3, 0)}
NoPktOut ==
    [parsed |-> NoPacketHeader, p22 |-> NoPacketHeader, p24 |-> NoPacketHeader,
     wrote |-> <<>>]

PktHdrInit ==
    /\ mode = "pkthdr" /\ fnPc = "start" /\ fnOut = NoPktOut
    /\ \E sec \in {<<5, 0, 0, 0>>, <<0, 0, 0, 6>>}, third \in HeaderWords,
          fourth \in HeaderWords, e \in Endianness, v \in HeaderVersions,
          incl \in {3, 260} :
          fnArg = [bytes |-> sec \o <<7, 0, 0, 0>> \o third \o fourth, e |-> e,
                   version |-> v,
                   h |-> PacketHeader(PacketTimestamp(1, 2), incl, 9)]
    /\ PcapIdle /\ NgIdle

\* PacketHeader::parse_bytes on the drawn bytes, with the drawn version and
\* with versions 2.2 and 2.4
ParseBytes ==
    /\ mode = "pkthdr" /\ fnPc = "start"
    /\ fnOut' = [fnOut EXCEPT
                    !.parsed = PacketHeader_parse_bytes(fnArg.bytes, fnArg.e, fnArg.version),
                    !.p22 = PacketHeader_parse_bytes(fnArg.bytes, fnArg.e, Version(2, 2)),
                    !.p24 = PacketHeader_parse_bytes(fnArg.bytes, fnArg.e, Version(2, 4))]
    /\ fnPc' = "parsed"
    /\ UNCHANGED <<mode, fnArg, pcapVars, ngVars>>

\* PacketHeader::write of the drawn header
WritePacketHeader ==
    /\ mode = "pkthdr" /\ fnPc = "parsed"
    /\ fnOut' = [fnOut EXCEPT !.wrote = PacketHeader_write(fnArg.h, fnArg.e, fnArg.version)]
    /\ fnPc' = "done"
    /\ UNCHANGED <<mode, fnArg, pcapVars, ngVars>>

SpecPktHdr == PktHdrInit /\ [][ParseBytes \/ WritePacketHeader]_vars

\* C3: parse_bytes reads (orig_len, include_len) for every version < 2.3 and
\* (include_len, orig_len) for every version >= 2.3, so parse(B, 2.2) and
\* parse(B, 2.4) have their length fields swapped and equal timestamps; write
\* orders the two fields by the same rule
C3_LengthFieldsSwapAt23 ==
    (mode = "pkthdr" /\ fnPc \in {"parsed", "done"}) =>
        LET dec(w) == IF fnArg.e = "BigEndian" THEN from_be_bytes4(w) ELSE from_le_bytes4(w)
            third == dec(SubSeq(fnArg.bytes, 9, 12))
            fourth == dec(SubSeq(fnArg.bytes, 13, 16))
            old == \/ fnArg.version.major < 2
                   \/ (fnArg.version.major = 2 /\ fnArg.version.minor < 3)
        IN  /\ fnOut.parsed.timestamp =
                   PacketTimestamp(dec(SubSeq(fnArg.bytes, 1, 4)), dec(SubSeq(fnArg.bytes, 5, 8)))
            /\ old => (fnOut.parsed.orig_len = third /\ fnOut.parsed.include_len = fourth)
            /\ ~old => (fnOut.parsed.include_len = third /\ fnOut.parsed.orig_len = fourth)
            /\ fnOut.p22.orig_len = fnOut.p24.include_len
            /\ fnOut.p22.include_len = fnOut.p24.orig_len
            /\ fnOut.p22.timestamp = fnOut.p24.timestamp
            /\ fnPc = "done" =>
                  /\ Len(fnOut.wrote) = 16
                  /\ SubSeq(fnOut.wrote, 9, 12) =
                        u32_to_bytes(fnArg.e, IF old THEN fnArg.h.orig_len
                                                     ELSE fnArg.h.include_len)
                  /\ SubSeq(fnOut.wrote, 13, 16) =
                        u32_to_bytes(fnArg.e, IF old THEN fnArg.h.include_len
                                                     ELSE fnArg.h.orig_len)
\* version 2.3 itself has been parsed and written in the new order, with two
\* different length words on the wire
C3_Witness ==
    /\ mode = "pkthdr" /\ fnPc = "done" /\ fnArg.version = Version(2, 3)
    /\ fnArg.e = "LittleEndian"
    /\ fnOut.parsed.include_len = 1 /\ fnOut.parsed.orig_len = 67108867
    /\ fnOut.p22.include_len = 67108867

----------------------------------------------------------------------------
(* PcapFileHeader to 24 bytes and back *)

FileHeaders ==
    {PcapFileHeader(MagicNumberAndEndianness(m, e), v, tz, sf, snap, lt) :
        m \in MagicNumbers, e \in Endianness,
        v \in {Version(2, 2), Version(2, 4), Version(2, 6)},
        tz \in {0, 1}, sf \in {0, 2}, snap \in {0, 100, 65636}, lt \in {0, 1, 105, 289}}
NoHdrOut == [bytes |-> <<>>, decoded |-> PcapFileHeader_try_from(<<0, 0, 0, 0>>)]

FileHdrInit ==
    /\ mode = "filehdr" /\ fnPc = "start" /\ fnArg \in FileHeaders /\ fnOut = NoHdrOut
    /\ PcapIdle /\ NgIdle

\* From<&PcapFileHeader> for [u8; 24]
EncodeFileHeader ==
    /\ mode = "filehdr" /\ fnPc = "start"
    /\ fnOut' = [fnOut EXCEPT !.bytes = PcapFileHeader_into_bytes(fnArg)]
    /\ fnPc' = "encoded"
    /\ UNCHANGED <<mode, fnArg, pcapVars, ngVars>>

\* TryFrom<&[u8; 24]> for PcapFileHeader
DecodeFileHeader ==
    /\ mode = "filehdr" /\ fnPc = "encoded"
    /\ fnOut' = [fnOut EXCEPT !.decoded = PcapFileHeader_try_from(fnOut.bytes)]
    /\ fnPc' = "done"
    /\ UNCHANGED <<mode, fnArg, pcapVars, ngVars>>

SpecFileHdr == FileHdrInit /\ [][EncodeFileHeader \/ DecodeFileHeader]_vars

\* C4: decoding the 24 bytes produced by encoding a file header H returns a
\* header equal to H
C4_FileHeaderRoundTrip ==
    (mode = "filehdr" /\ fnPc = "done") =>
        (Len(fnOut.bytes) = 24 /\ fnOut.decoded.ok /\ fnOut.decoded.val = fnArg)

----------------------------------------------------------------------------
(* BlockOptions written and read back *)

\* the options handed to BlockOption::new: code, PEN, value
OptionInputs ==
    {<<1, None32, <<>> >>, <<1, None32, <<65, 66, 67>> >>, <<2, None32, <<65, 66, 67, 68>> >>,
     <<0, None32, <<>> >>, <<2988, Some32(1), <<>> >>, <<19373, Some32(258), <<65>> >>}
BuiltOptions == {BlockOption_new(i[1], i[2], i[3]).val : i \in OptionInputs}
RECURSIVE OptionLists(_)
OptionLists(n) ==
    IF n = 0 THEN {<<>>}
    ELSE OptionLists(n - 1)
         \cup {Append(l, o) : l \in {x \in OptionLists(n - 1) : Len(x) = n - 1},
                              o \in BuiltOptions}
NoOptOut == [bytes |-> <<>>, read |-> BlockOptions_read(<<>>, 0, "LittleEndian")]

OptionsInit ==
    /\ mode = "options" /\ fnPc = "start" /\ fnOut = NoOptOut
    /\ \E options \in OptionLists(MaxOptions), e \in Endianness :
          fnArg = [options |-> options, e |-> e]
    /\ PcapIdle /\ NgIdle

\* BlockOptions::write into an empty buffer
WriteOptions ==
    /\ mode = "options" /\ fnPc = "start"
    /\ fnOut' = [fnOut EXCEPT !.bytes = BlockOptions_write(fnArg.options, fnArg.e)]
    /\ fnPc' = "written"
    /\ UNCHANGED <<mode, fnArg, pcapVars, ngVars>>

\* BlockOptions::read from the written bytes, with more bytes behind them
ReadOptions ==
    /\ mode = "options" /\ fnPc = "written"
    /\ fnOut' = [fnOut EXCEPT
                    !.read = BlockOptions_read(fnOut.bytes \o <<9, 9, 9, 9>>, 0, fnArg.e)]
    /\ fnPc' = "done"
    /\ UNCHANGED <<mode, fnArg, pcapVars, ngVars>>

SpecOptions == OptionsInit /\ [][WriteOptions \/ ReadOptions]_vars

\* C5: BlockOptions::read of the bytes BlockOptions::write produced for a list
\* built by BlockOption::new returns an equal list and consumes exactly the
\* bytes written, for either byte order and for the empty list
C5_OptionsRoundTrip ==
    (mode = "options" /\ fnPc = "done") =>
        /\ fnOut.read.ok
        /\ fnOut.read.options = fnArg.options
        /\ fnOut.read.pos = Len(fnOut.bytes)

----------------------------------------------------------------------------
(* Crafted pcap-ng streams fed to the pcap-ng reader *)

\* the encodings of a capture tool writing in byte order e
wire_u16(e, v) == IF e = "BigEndian" THEN to_be_bytes2(v) ELSE to_le_bytes2(v)
wire_u32(e, v) == IF e = "BigEndian" THEN to_be_bytes4(v) ELSE to_le_bytes4(v)
wire_marker(e) == IF e = "BigEndian" THEN <<26, 43, 60, 77>> ELSE <<77, 60, 43, 26>>
\* block_type | block_total_length | body | block_total_length
wire_block(e, id, body) ==
    wire_u32(e, id) \o wire_u32(e, Len(body) + 12) \o body \o wire_u32(e, Len(body) + 12)
\* what follows the fixed fields of a block: nothing, or an empty option list
\* closed by opt_endofopt
OptionTails == {<<>>, <<0, 0, 0, 0>>}
wire_shb(e, tail) ==
    wire_block(e, 168627466,
               wire_marker(e) \o wire_u16(e, 1) \o wire_u16(e, 0)
               \o <<0, 0, 0, 0, 0, 0, 0, 0>> \o tail)
wire_idb(e, link_type, tail) ==
    wire_block(e, 1, wire_u16(e, link_type) \o <<0, 0>> \o wire_u32(e, 100) \o tail)
wire_epb(e, n, tail) ==
    wire_block(e, 6,
               wire_u32(e, 0) \o wire_u32(e, 1) \o wire_u32(e, 2) \o wire_u32(e, n)
               \o wire_u32(e, n + 5) \o Content(n, 10)
               \o [i \in 1..(pad_length_to_32_bytes(n) - n) |-> 0] \o tail)
wire_spb(e, n) ==
    wire_block(e, 3,
               wire_u32(e, n) \o Content(n, 20)
               \o [i \in 1..(pad_length_to_32_bytes(n) - n) |-> 0])
\* k records of 4 data bytes, then nrb_record_end
RECURSIVE wire_records(_, _)
wire_records(e, k) ==
    IF k = 0 THEN <<0, 0, 0, 0>>
    ELSE wire_u16(e, 1) \o wire_u16(e, 4) \o Content(4, 30 + k) \o wire_records(e, k - 1)
wire_nrb(e, k, tail) == wire_block(e, 4, wire_records(e, k) \o tail)
wire_generic(e, n) == wire_block(e, 5, Content(n, 40))

\* the byte order of the section being written
WireOrder ==
    LET last == CHOOSE i \in 1..Len(written) :
                    /\ written[i].kind = "SectionHeader"
                    /\ \A j \in (i + 1)..Len(written) : written[j].kind # "SectionHeader"
    IN  written[last].order

\* the lengths of a truncated trailing block header
NgPartialLens == {0, 1, 7}

NgInit ==
    /\ mode = "ng" /\ FnIdle
    /\ \E e \in Endianness, tail \in OptionTails :
          /\ stream = wire_shb(e, tail)
          /\ written = <<[kind |-> "SectionHeader", order |-> e, length |-> Len(stream)]>>
    /\ pos = 0 /\ wHeader = NoFileHeader /\ wState = "open" /\ wLast = "none"
    /\ requires_header_rewrite = FALSE
    /\ rdHeader = NoFileHeader /\ rdState = "none" /\ rdLast = RdNone /\ rdGot = <<>>
    /\ profile \in Builds
    /\ current_section = NoBlock /\ interfaces = <<>> /\ packet_buffer = <<>>
    /\ ngState = "none" /\ ngLast = NgNone /\ ngGot = <<>> /\ ngPacket = NgPacketNone

\* one more block on the wire; written keeps its kind, byte order and length
CraftBlock(kind, e, bytes) ==
    /\ mode = "ng" /\ wState = "open" /\ Len(written) <= MaxBlocks
    /\ stream' = stream \o bytes
    /\ written' = Append(written, [kind |-> kind, order |-> e, length |-> Len(bytes)])
    /\ UNCHANGED <<mode, fnVars, ngVars, pos, wHeader, wState, wCalls, rdHeader, rdState,
                   rdLast, rdGot>>

\* the stream ends after p bytes of a further block header
CraftDone(p) ==
    /\ mode = "ng" /\ wState = "open"
    /\ stream' = stream \o [i \in 1..p |-> 7]
    /\ wState' = "finished"
    /\ UNCHANGED <<mode, fnVars, ngVars, pos, wHeader, wCalls, written, rdHeader, rdState,
                   rdLast, rdGot>>

\* what a call of SyncPcapNgReader::new that returned r leaves behind
NgReaderNewReturn(r) ==
    /\ pos' = r.pos
    /\ current_section' = r.current_section
    /\ interfaces' = r.interfaces
    /\ ngState' = IF r.ok THEN "open"
                  ELSE IF r.err = "Panic" THEN "panicked" ELSE "failed"
    /\ ngLast' = IF r.ok THEN ngLast
                 ELSE NgResult(IF r.err = "Panic" THEN "Panic" ELSE "Err", r.err, NoBlock, 0,
                               "")

\* SyncPcapNgReader::new on the finished stream
NgReaderNew ==
    /\ mode = "ng" /\ wState = "finished" /\ ngState = "none"
    /\ NgReaderNewReturn(SyncPcapNgReader_new(stream, profile))
    /\ UNCHANGED <<mode, fnVars, stream, wHeader, wState, wCalls, written, rdHeader, rdState,
                   rdLast, rdGot, profile, packet_buffer, ngGot, ngPacket>>

\* what a call of next_block that returned r leaves behind
NextBlockReturn(r) ==
    /\ pos' = r.pos
    /\ current_section' = r.self.current_section
    /\ interfaces' = r.self.interfaces
    /\ packet_buffer' = r.self.buffer
    /\ ngLast' = r.res
    /\ ngState' = CASE r.res.kind = "Err" -> "failed"
                    [] r.res.kind = "Panic" -> "panicked"
                    [] OTHER -> "open"
    /\ ngGot' = IF r.res.kind = "Some"
                THEN Append(ngGot, [block |-> r.res.block, order |-> r.res.order,
                                    start |-> r.res.start])
                ELSE ngGot

\* SyncPcapNgReader::next_block
NextBlock ==
    /\ mode = "ng" /\ ngState = "open"
    /\ NextBlockReturn(
           SyncPcapNgReader_next_block(
               stream, pos,
               [current_section |-> current_section, interfaces |-> interfaces,
                buffer |-> packet_buffer],
               profile))
    /\ UNCHANGED <<mode, fnVars, stream, wHeader, wState, wCalls, written, rdHeader, rdState,
                   rdLast, rdGot, profile, ngPacket>>

\* what a call of next_packet that returned r leaves behind
NextPacketReturn(r) ==
    /\ pos' = r.pos
    /\ current_section' = r.self.current_section
    /\ interfaces' = r.self.interfaces
    /\ packet_buffer' = r.self.buffer
    /\ ngLast' = r.last
    /\ ngPacket' = r.res
    /\ ngState' = CASE r.res.kind = "Err" -> "failed"
                    [] r.res.kind = "Panic" -> "panicked"
                    [] OTHER -> "open"
    /\ ngGot' = ngGot \o r.res.fetched

\* SyncPcapNgReader::next_packet
NgNextPacket ==
    /\ mode = "ng" /\ ngState = "open"
    /\ NextPacketReturn(
           SyncPcapNgReader_next_packet(
               stream, pos,
               [current_section |-> current_section, interfaces |-> interfaces,
                buffer |-> packet_buffer],
               pos, profile, <<>>))
    /\ UNCHANGED <<mode, fnVars, stream, wHeader, wState, wCalls, written, rdHeader, rdState,
                   rdLast, rdGot, profile>>

NgNext ==
    \/ \E e \in Endianness, tail \in OptionTails :
          CraftBlock("SectionHeader", e, wire_shb(e, tail))
    \/ \E link_type \in {1, 105}, tail \in OptionTails :
          CraftBlock("InterfaceDescription", WireOrder, wire_idb(WireOrder, link_type, tail))
    \/ \E n \in {0, MaxContentLen}, tail \in OptionTails :
          CraftBlock("EnhancedPacket", WireOrder, wire_epb(WireOrder, n, tail))
    \/ \E n \in {4} : CraftBlock("SimplePacket", WireOrder, wire_spb(WireOrder, n))
    \/ \E k \in {0, MaxRecords}, tail \in OptionTails :
          CraftBlock("NameResolution", WireOrder, wire_nrb(WireOrder, k, tail))
    \/ \E n \in {0, 4} : CraftBlock("Generic", WireOrder, wire_generic(WireOrder, n))
    \/ \E p \in NgPartialLens : CraftDone(p)
    \/ NgReaderNew
    \/ NextBlock
    \/ NgNextPacket
SpecNg == NgInit /\ [][NgNext]_vars

\* the index among the first n returned blocks of the last Section Header
\* Block, 0 when there is none
LastSectionIndex(n) ==
    LET S == {i \in 1..n : ngGot[i].block.kind = "SectionHeader"}
    IN  IF S = {} THEN 0 ELSE CHOOSE i \in S : \A j \in S : j <= i
\* the Interface Description Blocks returned since the most recent Section
\* Header Block, in order of appearance
IsInterfaceDescription(g) == g.block.kind = "InterfaceDescription"
ReturnedInterfaces ==
    LET since == SubSeq(ngGot, LastSectionIndex(Len(ngGot)) + 1, Len(ngGot))
        idbs == SelectSeq(since, IsInterfaceDescription)
    IN  [i \in 1..Len(idbs) |-> idbs[i].block]

\* C6: after any sequence of successful next_block calls, interfaces() is the
\* list of the Interface Description Blocks returned since the most recent
\* Section Header Block, in order; when the block just returned is a Section
\* Header Block the list is empty and current_section() is that block
C6_InterfacesSinceLastSection ==
    (mode = "ng" /\ ngState = "open") =>
        /\ interfaces = ReturnedInterfaces
        /\ (Len(ngGot) > 0 /\ ngGot[Len(ngGot)].block.kind = "SectionHeader") =>
              /\ interfaces = <<>>
              /\ current_section = ngGot[Len(ngGot)].block

\* an Interface Description Block was returned and pushed, then a Section
\* Header Block was returned and the table is empty again
C6_Witness ==
    /\ mode = "ng" /\ ngState = "open" /\ Len(ngGot) = 2
    /\ ngGot[1].block.kind = "InterfaceDescription"
    /\ ngGot[2].block.kind = "SectionHeader"
    /\ ngLast.kind = "Some" /\ ngLast.block = ngGot[2].block
    /\ interfaces = <<>> /\ current_section = ngGot[2].block

\* the byte order the first Section Header Block of the stream declares
FirstSectionOrder ==
    IF SubSeq(stream, 9, 12) = <<26, 43, 60, 77>> THEN "BigEndian" ELSE "LittleEndian"
\* the byte order of the most recent Section Header Block before the i-th
\* returned block
SectionOrder(i) ==
    IF LastSectionIndex(i - 1) = 0 THEN FirstSectionOrder
    ELSE ngGot[LastSectionIndex(i - 1)].block.byte_order
\* the 32-bit and 16-bit values at stream offset k in byte order o
word_at(o, k) ==
    IF o = "BigEndian" THEN from_be_bytes4(SubSeq(stream, k + 1, k + 4))
    ELSE from_le_bytes4(SubSeq(stream, k + 1, k + 4))
half_at(o, k) ==
    IF o = "BigEndian" THEN from_be_bytes2(SubSeq(stream, k + 1, k + 2))
    ELSE from_le_bytes2(SubSeq(stream, k + 1, k + 2))
\* the block kind of a block id
KindOfId(id) ==
    CASE id = 6 -> "EnhancedPacket" [] id = 3 -> "SimplePacket"
      [] id = 168627466 -> "SectionHeader" [] id = 1 -> "InterfaceDescription"
      [] id = 4 -> "NameResolution" [] OTHER -> "Generic"

\* C7: every returned block was read in the byte order of the most recent
\* Section Header Block: that order is what next_block hands to the block
\* reader, the block id, the block length and the multi-byte fields of the block
\* are the values at its offsets in that order, a Section Header Block takes
\* its own order from its marker, and current_section().byte_order is the order
\* of the last Section Header Block returned
C7_BlocksDecodedInSectionOrder ==
    mode = "ng" =>
        /\ \A i \in 1..Len(ngGot) :
              LET b == ngGot[i].block
                  at == ngGot[i].start
                  o == SectionOrder(i)
              IN  /\ ngGot[i].order = o
                  /\ b.kind = KindOfId(word_at(o, at))
                  /\ b.kind = "SectionHeader" =>
                        /\ SubSeq(stream, at + 9, at + 12) =
                              (IF b.byte_order = "BigEndian" THEN <<26, 43, 60, 77>>
                               ELSE <<77, 60, 43, 26>>)
                        /\ b.block_length = word_at(b.byte_order, at + 4)
                        /\ b.version.major = half_at(b.byte_order, at + 12)
                        /\ b.version.minor = half_at(b.byte_order, at + 14)
                  /\ b.kind # "SectionHeader" => b.block_length = word_at(o, at + 4)
                  /\ b.kind = "InterfaceDescription" =>
                        /\ b.link_type = half_at(o, at + 8)
                        /\ b.snap_length = word_at(o, at + 12)
                  /\ b.kind = "EnhancedPacket" =>
                        /\ b.interface_id = word_at(o, at + 8)
                        /\ b.timestamp_high = word_at(o, at + 12)
                        /\ b.timestamp_low = word_at(o, at + 16)
                        /\ b.captured_length = word_at(o, at + 20)
                        /\ b.original_length = word_at(o, at + 24)
                  /\ b.kind = "SimplePacket" => b.original_length = word_at(o, at + 8)
                  /\ (b.kind = "NameResolution" /\ b.records # <<>>) =>
                        /\ b.records[1].record_type = half_at(o, at + 8)
                        /\ b.records[1].record_length = half_at(o, at + 10)
                  /\ b.kind = "Generic" => b.block_id = word_at(o, at)
        /\ ngState = "open" => current_section.byte_order = SectionOrder(Len(ngGot) + 1)

\* a second section in the other byte order was opened and an Interface
\* Description Block of that section was returned with the values written
C7_Witness ==
    /\ mode = "ng" /\ ngState = "open" /\ Len(ngGot) = 2
    /\ ngGot[1].block.kind = "SectionHeader"
    /\ ngGot[1].block.byte_order # FirstSectionOrder
    /\ ngGot[2].block.kind = "InterfaceDescription"
    /\ ngGot[2].order = ngGot[1].block.byte_order
    /\ ngGot[2].block.block_length = 20
    /\ ngGot[2].block.link_type = 105 /\ ngGot[2].block.snap_length = 100
    /\ current_section.byte_order = ngGot[1].block.byte_order

----------------------------------------------------------------------------
(* End of stream in the two readers *)

EofInit == PcapReadInit \/ NgInit
EofNext == PcapReadNext \/ NgNext
SpecEof == EofInit /\ [][EofNext]_vars

\* C10: next_packet and next_block return None only when the call began at
\* the end of the stream, with zero bytes of the next header available
C10_NoneOnlyAtCleanEof ==
    /\ (mode = "pcapr" /\ rdLast.kind = "None") => rdLast.start = Len(stream)
    /\ (mode = "ng" /\ ngLast.kind = "None") => ngLast.start = Len(stream)

----------------------------------------------------------------------------
(* SyncAnyPcapReader::new on streams that begin with any 4 bytes *)

\* the offset in the stream of the i-th block put on the wire
RECURSIVE WrittenStart(_)
WrittenStart(i) == IF i = 1 THEN 0 ELSE WrittenStart(i - 1) + written[i - 1].length
\* the packet blocks on the wire that begin at or after offset k
PacketBlocksFrom(k) ==
    {i \in 1..Len(written) :
        /\ written[i].kind \in {"EnhancedPacket", "SimplePacket"}
        /\ WrittenStart(i) >= k}
\* the packet the i-th block on the wire carries, taken from its bytes
WirePacket(i) ==
    LET at == WrittenStart(i)
        o == written[i].order
    IN  IF written[i].kind = "EnhancedPacket"
        THEN [header |-> [kind |-> "PcapNgEnhanced", block_length |-> word_at(o, at + 4),
                          original_length |-> word_at(o, at + 24),
                          interface_id |-> word_at(o, at + 8),
                          timestamp_high |-> word_at(o, at + 12),
                          timestamp_low |-> word_at(o, at + 16),
                          captured_length |-> word_at(o, at + 20),
                          options |-> NoOptions],
              content |-> SubSeq(stream, at + 29, at + 28 + word_at(o, at + 20))]
        ELSE [header |-> [kind |-> "PcapNgSimple", block_length |-> word_at(o, at + 4),
                          original_length |-> word_at(o, at + 8)],
              content |-> SubSeq(stream, at + 13, at + 12 + word_at(o, at + 8))]
\* what the statement of next_packet asks of the call recorded in ngPacket
NextPacketAsStated ==
    LET S == PacketBlocksFrom(ngPacket.start)
        first == CHOOSE i \in S : \A j \in S : i <= j
    IN  /\ IF S = {} THEN ngPacket.kind = "None"
           ELSE ngPacket.kind = "Some" /\ ngPacket.packet = WirePacket(first)
        /\ ngPacket.kind \in {"Some", "None"}
        /\ \A i \in 1..Len(ngPacket.fetched) - 1 :
              ~ (ngPacket.fetched[i].block.kind \in {"EnhancedPacket", "SimplePacket"})

\* C11: next_packet returns the first Simple Packet or Enhanced Packet block
\* at or after the stream position it was called at, as (AnyPacketHeader,
\* content), skipping the blocks of every other kind, and returns None exactly
\* when the stream ends before such a block; the Interface Description and
\* Section Header Blocks it skips update interfaces() and current_section() as
\* next_block does
C11_NextPacketReturnsFirstPacketBlock ==
    (mode = "ng" /\ ngPacket.kind # "none") =>
        /\ NextPacketAsStated
        /\ ngState = "open" => interfaces = ReturnedInterfaces

\* the same on the streams that hold no Simple Packet Block and whose Section
\* Header Blocks all carry an option list
C11_OnEnhancedPacketsAndSectionsWithOptions ==
    (/\ mode = "ng" /\ ngPacket.kind # "none"
     /\ \A i \in 1..Len(written) :
           /\ written[i].kind # "SimplePacket"
           /\ written[i].kind = "SectionHeader" => written[i].length = 32) =>
        /\ NextPacketAsStated
        /\ ngState = "open" => interfaces = ReturnedInterfaces

\* the byte values the magic patterns are made of
MagicBytes == {10, 13, 60, 77, 161, 178, 195, 212}
\* what follows the first 4 bytes: the rest of a pcap file header or of a
\* Section Header Block with an empty option list, in either byte order
PcapRest(e) ==
    wire_u16(e, 2) \o wire_u16(e, 4) \o <<0, 0, 0, 0>> \o <<0, 0, 0, 0>>
    \o wire_u32(e, 100) \o wire_u32(e, 1)
SectionRest(e) == SubSeq(wire_shb(e, <<0, 0, 0, 0>>), 5, 32)
\* the sizes of the first chunk a reader may deliver of a 4-byte request
FirstReads == 1..4
NoAnyOut == AnyResult(FALSE, "", "", "")

AnyInit ==
    /\ mode = "any" /\ fnPc = "start" /\ fnOut = NoAnyOut
    /\ \E a \in MagicBytes, b \in MagicBytes, c \in MagicBytes, d \in MagicBytes,
          e \in Endianness, form \in {"Pcap", "PcapNg"}, n \in FirstReads,
          build \in Builds :
          fnArg = [magic |-> <<a, b, c, d>>, order |-> e, form |-> form,
                   stream |-> <<a, b, c, d>>
                              \o (IF form = "Pcap" THEN PcapRest(e) ELSE SectionRest(e)),
                   first_read |-> n, build |-> build]
    /\ PcapIdle /\ NgIdle
\* SyncAnyPcapReader::new
AnyReaderNew ==
    /\ mode = "any" /\ fnPc = "start"
    /\ fnOut' = SyncAnyPcapReaderInner_new(fnArg.stream, fnArg.first_read, fnArg.build)
    /\ fnPc' = "done"
    /\ UNCHANGED <<mode, fnArg, pcapVars, ngVars>>
SpecAny == AnyInit /\ [][AnyReaderNew]_vars

\* the kind of file the 4 magic bytes announce
Classification(magic) ==
    IF magic \in CraftMagics THEN "Pcap"
    ELSE IF magic = <<10, 13, 13, 10>> THEN "PcapNg"
    ELSE "None"
\* the stream goes on as a file of the kind and byte order its magic announces
WellFormed(arg) ==
    \/ /\ Classification(arg.magic) = "Pcap" /\ arg.form = "Pcap"
       /\ arg.order = (IF arg.magic[1] = 161 THEN "BigEndian" ELSE "LittleEndian")
    \/ Classification(arg.magic) = "PcapNg" /\ arg.form = "PcapNg"

\* C8: from_magic classifies the four pcap patterns as Pcap, 0A 0D 0D 0A as
\* PcapNg and every other value as None; SyncAnyPcapReader::new builds the
\* reader of the classified kind and fails with InvalidPcapFormat for every
\* unrecognised 4-byte prefix
C8_ClassifiedReaderOrInvalidFormat ==
    (mode = "any" /\ fnPc = "done") =>
        /\ PcapFileType_from_magic(fnArg.magic) = Classification(fnArg.magic)
        /\ Classification(fnArg.magic) = "None" =>
              ~fnOut.ok /\ fnOut.err = "InvalidPcapFormat"
        /\ WellFormed(fnArg) =>
              fnOut.ok /\ fnOut.file_type = Classification(fnArg.magic)
\* the same on readers whose first read call delivers all 4 bytes asked for
C8_WhenFirstReadIsFull ==
    fnArg.first_read = 4 => C8_ClassifiedReaderOrInvalidFormat

\* construction did not run out of bytes, and built the reader of the kind
\* the magic announces when the stream goes on as a file of that kind
ClassifiedWithoutEof ==
    /\ ~ (~fnOut.ok /\ fnOut.err = "IOError" /\ fnOut.reader = "UnexpectedEof")
    /\ WellFormed(fnArg) => fnOut.ok /\ fnOut.file_type = Classification(fnArg.magic)

\* C30: SyncAnyPcapReader::new classifies every stream whose first 4 bytes are
\* a valid magic, however the underlying reader chunks its data: when the
\* first read call returns fewer than 4 bytes, construction still obtains all
\* 4 bytes and does not fail with UnexpectedEof
C30_ClassifiedHoweverChunked ==
    (mode = "any" /\ fnPc = "done" /\ Classification(fnArg.magic) # "None") =>
        ClassifiedWithoutEof

\* the same on readers whose first read call returns the 4 bytes
C30_WhenFirstReadReturnsFour ==
    (/\ mode = "any" /\ fnPc = "done" /\ Classification(fnArg.magic) # "None"
     /\ fnArg.first_read = 4) => ClassifiedWithoutEof

----------------------------------------------------------------------------
(* The seekable pcap writer *)

\* the SyncPcapWriter the variables hold
CurrentWriter == SyncPcapWriter(stream, pos, wHeader, requires_header_rewrite)
\* what a call that left the writer w leaves behind
WriterReturn(w) ==
    /\ stream' = w.target
    /\ pos' = w.pos
    /\ wHeader' = w.header
    /\ requires_header_rewrite' = w.requires_header_rewrite

SyncWriteInit ==
    /\ mode = "syncw" /\ NgIdle
    /\ fnPc = "idle" /\ fnArg = <<>> /\ fnOut = <<>>
    /\ \E header \in WriterHeaders :
          /\ stream = SyncPcapWriter_new(header).target
          /\ pos = SyncPcapWriter_new(header).pos
          /\ wHeader = header
    /\ requires_header_rewrite = FALSE
    /\ wState = "open" /\ wLast = "none" /\ written = <<>>
    /\ rdHeader = NoFileHeader /\ rdState = "none" /\ rdLast = RdNone /\ rdGot = <<>>

\* SyncPcapWriter::write_header
SyncWriteHeader(header, content) ==
    /\ mode = "syncw" /\ wState = "open" /\ Len(written) < MaxPackets
    /\ WriterReturn(SyncPcapWriter_write_header(CurrentWriter, header, content))
    /\ wLast' = "Ok"
    /\ written' = Append(written, [include_len |-> Len(content), data |-> content])
    /\ UNCHANGED <<mode, fnVars, ngVars, wState, rdHeader, rdState, rdLast, rdGot>>

\* SyncPcapWriter::finish; fnArg keeps the writer the call consumed
SyncFinish ==
    /\ mode = "syncw" /\ wState = "open"
    /\ WriterReturn(SyncPcapWriter_finish(CurrentWriter))
    /\ fnArg' = CurrentWriter
    /\ wState' = "finished" /\ wLast' = "Ok"
    /\ UNCHANGED <<mode, fnPc, fnOut, ngVars, written, rdHeader, rdState, rdLast, rdGot>>

SyncWriteNext ==
    \/ \E n \in 0..(MaxContentLen + 1), seed \in Seeds :
          \E orig \in {None32, Some32(n + 5)} :
             SyncWriteHeader(NewPacketHeader(PacketTimestamp(seed, n), orig), Content(n, seed))
    \/ SyncFinish

SpecSyncWrite == SyncWriteInit /\ [][SyncWriteNext]_vars

\* finish rewrote the first 24 bytes exactly when requires_header_rewrite was
\* set, wrote nothing otherwise, and left the packet records alone
FinishRewritesIffDirty ==
    /\ IF fnArg.requires_header_rewrite
       THEN /\ SubSeq(stream, 1, 24) = PcapFileHeader_into_bytes(fnArg.header)
            /\ pos = 24
       ELSE stream = fnArg.target /\ pos = fnArg.pos
    /\ Len(stream) = Len(fnArg.target)
    /\ SubSeq(stream, 25, Len(stream)) = SubSeq(fnArg.target, 25, Len(fnArg.target))
\* the snap length field of the file, read in the byte order of the header
SnapLengthOnFile ==
    IF wHeader.magic_number_and_endianness.endianness = "BigEndian"
    THEN from_be_bytes4(SubSeq(stream, 17, 20))
    ELSE from_le_bytes4(SubSeq(stream, 17, 20))

\* C13: SyncPcapWriter::finish seeks to offset 0 and rewrites the 24-byte file
\* header, which then carries the enlarged snap length, if and only if
\* requires_header_rewrite is set; otherwise it writes nothing; in both cases
\* the packet records after byte 24 are unchanged
C13_FinishRewritesHeaderIffDirty ==
    (mode = "syncw" /\ wState = "finished") =>
        /\ FinishRewritesIffDirty
        /\ fnArg.requires_header_rewrite => SnapLengthOnFile = wHeader.snap_length

\* the same without the value of the snap length field on the file
C13_RewriteIffDirtyAndRecordsKept ==
    (mode = "syncw" /\ wState = "finished") => FinishRewritesIffDirty

\* the same with the snap length field, for little-endian headers
C13_OnLittleEndianHeaders ==
    (/\ mode = "syncw" /\ wState = "finished"
     /\ wHeader.magic_number_and_endianness.endianness = "LittleEndian") =>
        /\ FinishRewritesIffDirty
        /\ fnArg.requires_header_rewrite => SnapLengthOnFile = wHeader.snap_length

\* the snap length of the header SyncPcapWriter::new was given, which is the
\* one the first 24 bytes of the target hold until finish
InitialSnapLength ==
    CHOOSE s \in 0..(MaxContentLen + 1) :
        PcapFileHeader_into_bytes([wHeader EXCEPT !.snap_length = s]) = SubSeq(stream, 1, 24)
\* the largest of a set of lengths, and of a floor
MaxOf(floor, lengths) ==
    CHOOSE x \in lengths \cup {floor} : \A y \in lengths \cup {floor} : y <= x
\* the snap length in force when the k-th write_header call began
SnapLengthInForce(k) ==
    MaxOf(InitialSnapLength, {written[j].include_len : j \in 1..(k - 1)})
SnapLengthAndFlagFollowWrites ==
    /\ wHeader.snap_length =
          MaxOf(InitialSnapLength, {written[k].include_len : k \in 1..Len(written)})
    /\ requires_header_rewrite <=>
          \E k \in 1..Len(written) : written[k].include_len > SnapLengthInForce(k)
    /\ requires_header_rewrite <=> wHeader.snap_length > InitialSnapLength

\* C25: after any sequence of SyncPcapWriter::write_header calls, the snap
\* length of the header is the larger of the initial snap length and the
\* largest content length written; requires_header_rewrite is true exactly when
\* some written content was longer than the snap length in force at the time,
\* which is exactly when the snap length grew beyond its initial value; and
\* the flag never returns to false
C25_SnapLengthGrowsAndFlagSticks ==
    /\ []((mode = "syncw" /\ wState = "open") => SnapLengthAndFlagFollowWrites)
    /\ [][(mode = "syncw" /\ requires_header_rewrite) => requires_header_rewrite']_vars

\* two packets written, the second longer than the initial snap length after a
\* first that fitted: the flag is set and the snap length is that of the second
C25_Witness ==
    /\ mode = "syncw" /\ wState = "open" /\ Len(written) = 2
    /\ written[1].include_len <= InitialSnapLength
    /\ written[2].include_len > InitialSnapLength
    /\ requires_header_rewrite
    /\ wHeader.snap_length = written[2].include_len

----------------------------------------------------------------------------
(* The pcap writer that needs no Seek, call by call *)

SeeklessInit ==
    /\ mode = "seekless" /\ NgIdle
    /\ fnPc = "idle" /\ fnArg = <<>> /\ fnOut = <<>>
    /\ wHeader \in WriterHeaders
    /\ stream = SeeklessPcapWriter_new(wHeader)
    /\ pos = 0 /\ wState = "open" /\ wLast = "none" /\ written = <<>>
    /\ requires_header_rewrite = FALSE
    /\ rdHeader = NoFileHeader /\ rdState = "none" /\ rdLast = RdNone /\ rdGot = <<>>

\* SeeklessPcapWriter::write_header; fnArg keeps the arguments, the sink and
\* the header of the writer as they were when the call began
SeeklessWriteHeader(header, content) ==
    /\ mode = "seekless" /\ wState = "open" /\ Len(written) < MaxPackets
    /\ LET r == SeeklessPcapWriter_write_header(wHeader, header, content)
       IN  /\ stream' = stream \o r.out
           /\ wLast' = IF r.ok THEN "Ok" ELSE "Err"
           /\ written' = Append(written, [header |-> r.packet, data |-> content])
    /\ fnArg' = [header |-> header, content |-> content, target |-> stream,
                 file_header |-> wHeader]
    /\ UNCHANGED <<mode, fnPc, fnOut, ngVars, pos, wHeader, wState, requires_header_rewrite,
                   rdHeader, rdState, rdLast, rdGot>>

SeeklessNext ==
    \E n \in 0..MaxContentLen, seed \in Seeds :
       \E orig \in {None32, Some32(n + 5)} :
          SeeklessWriteHeader(NewPacketHeader(PacketTimestamp(seed, n), orig),
                              Content(n, seed))

SpecSeekless == SeeklessInit /\ [][SeeklessNext]_vars

\* C14: write_header with content longer than header.snap_length returns an
\* error, writes no byte to the sink and leaves the header of the writer
\* unchanged; with content no longer than snap_length it writes exactly the 16
\* bytes of the packet header followed by the content
C14_OversizedRejectedNothingWritten ==
    (mode = "seekless" /\ wLast # "none") =>
        LET content == fnArg.content
            e == fnArg.file_header.magic_number_and_endianness.endianness
            packet == PacketHeader(fnArg.header.timestamp, Len(content),
                                   unwrap_or(fnArg.header.orig_len, Len(content)))
        IN  /\ wHeader = fnArg.file_header
            /\ IF Len(content) > fnArg.file_header.snap_length
               THEN wLast = "Err" /\ stream = fnArg.target
               ELSE /\ wLast = "Ok"
                    /\ Len(stream) = Len(fnArg.target) + 16 + Len(content)
                    /\ SubSeq(stream, 1, Len(fnArg.target)) = fnArg.target
                    /\ SubSeq(stream, Len(fnArg.target) + 1, Len(fnArg.target) + 16)
                          = PacketHeader_write(packet, e, fnArg.file_header.version)
                    /\ SubSeq(stream, Len(fnArg.target) + 17, Len(stream)) = content

\* after a packet that fitted, a packet of 2 bytes was refused by a writer whose
\* snap_length is 1, and the sink still ends with the first packet
C14_Witness ==
    /\ mode = "seekless" /\ wLast = "Err" /\ Len(written) = 2
    /\ wHeader.snap_length = 1 /\ Len(fnArg.content) = 2
    /\ Len(written[1].data) = 1
    /\ Len(stream) = 24 + 16 + 1 /\ stream = fnArg.target

----------------------------------------------------------------------------
(* Reading one Enhanced Packet Block *)

MaxCapturedLen == 10
\* an Enhanced Packet Block of interface 0 and timestamp (1, 2) on the wire
wire_enhanced(e, original_length, content, tail) ==
    wire_block(e, 6,
               wire_u32(e, 0) \o wire_u32(e, 1) \o wire_u32(e, 2)
               \o wire_u32(e, Len(content)) \o wire_u32(e, original_length) \o content
               \o [i \in 1..(pad_length_to_32_bytes(Len(content)) - Len(content)) |-> 0]
               \o tail)
\* the packet buffer handed in: new, or left behind by a longer packet
PacketBuffers == {<<>>, [i \in 1..(MaxCapturedLen + 6) |-> 99]}

EpbInit ==
    /\ mode = "epb" /\ PcapIdle /\ NgIdle
    /\ fnPc = "idle" /\ fnOut = <<>>
    /\ \E e \in Endianness, n \in 0..MaxCapturedLen, more \in {0, 5}, tail \in OptionTails,
          buffer \in PacketBuffers, build \in Builds :
          fnArg = [byte_order |-> e, content |-> Content(n, 10), original_length |-> n + more,
                   tail |-> tail, buffer |-> buffer, build |-> build,
                   wire |-> wire_enhanced(e, n + more, Content(n, 10), tail)]

\* BlockHeader::read, then EnhancedPacket::read_with_header on the same reader
ReadEnhancedPacket ==
    /\ mode = "epb" /\ fnPc = "idle"
    /\ fnOut' = EnhancedPacket_read_with_header(
                    fnArg.wire, 8, BlockHeader_parse_from_bytes(SubSeq(fnArg.wire, 1, 8)),
                    fnArg.byte_order, fnArg.buffer, fnArg.build)
    /\ fnPc' = "done"
    /\ UNCHANGED <<mode, fnArg, pcapVars, ngVars>>

SpecEpb == EpbInit /\ [][ReadEnhancedPacket]_vars

\* C12: reading an Enhanced Packet Block with captured length L consumes L
\* rounded up to a multiple of 4 content bytes, and the block returned has as
\* content exactly the first L content bytes on the wire, captured_length L and
\* the original_length declared
C12_ContentIsCapturedBytes ==
    (mode = "epb" /\ fnPc = "done") =>
        LET L == Len(fnArg.content)
        IN  /\ fnOut.ok
            /\ fnOut.block.kind = "EnhancedPacket"
            /\ fnOut.pos = 28 + pad_length_to_32_bytes(L) + Len(fnArg.tail) + 4
            /\ fnOut.pos = Len(fnArg.wire)
            /\ fnOut.block.content = fnArg.content
            /\ fnOut.block.content = SubSeq(fnArg.wire, 29, 28 + L)
            /\ fnOut.block.captured_length = L
            /\ fnOut.block.original_length = fnArg.original_length

\* a block of 10 content bytes declared with original_length 10 was read into a
\* buffer a longer packet had left behind: 12 content bytes were consumed and
\* the 10 bytes came back
C12_Witness ==
    /\ mode = "epb" /\ fnPc = "done" /\ fnOut.ok
    /\ fnArg.buffer # <<>>
    /\ Len(fnArg.content) = 10 /\ fnArg.original_length = 10
    /\ fnOut.block.content = Content(10, 10)
    /\ fnOut.block.original_length = 10
    /\ fnOut.pos = 28 + 12 + Len(fnArg.tail) + 4

----------------------------------------------------------------------------
(* Reading one block of any kind with PcapNgBlock::read *)

\* block ids without a block type of their own
GenericIds == {0, 2, 5, 7, 2989}
\* the block wire with d as its declared total length, in both length fields
declare_length(e, wire, d) ==
    SubSeq(wire, 1, 4) \o wire_u32(e, d) \o SubSeq(wire, 9, Len(wire) - 4) \o wire_u32(e, d)
\* well-formed blocks in byte order e, each with its kind, its id and the
\* minimum framing size of the block: the fixed size of its kind plus, for an
\* Enhanced Packet Block, the padded captured length and, for a Name Resolution
\* Block, the records
WellFormedWires(e) ==
    {[kind |-> "SectionHeader", block_id |-> 168627466, minimum |-> 24,
      wire |-> wire_shb(e, tail)] : tail \in OptionTails}
    \cup {[kind |-> "InterfaceDescription", block_id |-> 1, minimum |-> 20,
           wire |-> wire_idb(e, lt, tail)] : lt \in {1, 105}, tail \in OptionTails}
    \cup {[kind |-> "EnhancedPacket", block_id |-> 6,
           minimum |-> 32 + pad_length_to_32_bytes(n),
           wire |-> wire_epb(e, n, tail)] : n \in {0, MaxContentLen}, tail \in OptionTails}
    \cup {[kind |-> "SimplePacket", block_id |-> 3, minimum |-> 16,
           wire |-> wire_spb(e, n)] : n \in {0, 4}}
    \cup {[kind |-> "NameResolution", block_id |-> 4,
           minimum |-> 12 + Len(wire_records(e, r)),
           wire |-> wire_nrb(e, r, tail)] : r \in {0, MaxRecords}, tail \in OptionTails}
    \cup {[kind |-> "Generic", block_id |-> id, minimum |-> 12,
           wire |-> wire_block(e, id, Content(n, 40))] : id \in GenericIds, n \in {0, 4, 8}}
\* how far below the minimum framing size a declared length is
UndersizedBy == {4, 8}
\* the blocks handed to PcapNgBlock::read: the well-formed ones, and each kind
\* with a declared length below its minimum framing size
BlockWires(e) ==
    {[kind |-> b.kind, block_id |-> b.block_id, wire |-> b.wire, undersized |-> FALSE] :
        b \in WellFormedWires(e)}
    \cup {[kind |-> b.kind, block_id |-> b.block_id, undersized |-> TRUE,
           wire |-> declare_length(e, b.wire, b.minimum - d)] :
            b \in {w \in WellFormedWires(e) : w.kind # "Generic"}, d \in UndersizedBy}

BlockInit ==
    /\ mode = "block" /\ PcapIdle /\ NgIdle
    /\ fnPc = "idle" /\ fnOut = <<>>
    /\ \E e \in Endianness, buffer \in PacketBuffers, build \in Builds :
          \E b \in BlockWires(e) :
             fnArg = [kind |-> b.kind, block_id |-> b.block_id, wire |-> b.wire,
                      undersized |-> b.undersized, byte_order |-> e, buffer |-> buffer,
                      build |-> build]

\* BlockHeader::parse_from_bytes on the first 8 bytes, then PcapNgBlock::read
ReadBlock ==
    /\ mode = "block" /\ fnPc = "idle"
    /\ fnOut' = PcapNgBlock_read(fnArg.wire, 8,
                                 BlockHeader_parse_from_bytes(SubSeq(fnArg.wire, 1, 8)),
                                 fnArg.byte_order, fnArg.buffer, fnArg.build)
    /\ fnPc' = "done"
    /\ UNCHANGED <<mode, fnArg, pcapVars, ngVars>>

SpecBlock == BlockInit /\ [][ReadBlock]_vars

\* the block read is of the kind of its id; a Generic block carries the id, the
\* declared block length and the block_length - 12 payload bytes
ReadAsItsKind ==
    /\ fnOut.ok
    /\ fnOut.block.kind = KindOfId(fnArg.block_id)
    /\ fnOut.block.kind = fnArg.kind
    /\ fnArg.kind = "Generic" =>
          /\ fnOut.block.block_id = fnArg.block_id
          /\ fnOut.block.block_length = Len(fnArg.wire)
          /\ fnOut.block.data.bytes = SubSeq(fnArg.wire, 9, Len(fnArg.wire) - 4)
          /\ Len(fnOut.block.data.bytes) = fnOut.block.block_length - 12
          /\ fnOut.pos = Len(fnArg.wire)

\* C15: PcapNgBlock::read returns SectionHeader for id 0x0A0D0D0A,
\* InterfaceDescription for 1, SimplePacket for 3, NameResolution for 4,
\* EnhancedPacket for 6, and for every other id a Generic block with that id,
\* the declared block length and the block_length - 12 payload bytes, never an
\* error
C15_BlockKindById ==
    (mode = "block" /\ fnPc = "done" /\ ~fnArg.undersized) => ReadAsItsKind

\* the same for the blocks other than Simple Packet Blocks and Section Header
\* Blocks without an option list
C15_ExceptSimplePacketAndBareSection ==
    (/\ mode = "block" /\ fnPc = "done" /\ ~fnArg.undersized
     /\ fnArg.kind # "SimplePacket"
     /\ ~ (fnArg.kind = "SectionHeader" /\ Len(fnArg.wire) = 28)) => ReadAsItsKind

\* C16: a block whose declared total length is smaller than the minimum
\* framing size of its kind (Section Header 24, Interface Description 20,
\* Enhanced Packet 32 plus the padded captured length, Simple Packet 16, Name
\* Resolution 12 plus the records read) makes the read return a typed error;
\* no read path panics or underflows
C16_UndersizedBlockIsTypedError ==
    (mode = "block" /\ fnPc = "done" /\ fnArg.undersized) =>
        ~fnOut.ok /\ fnOut.err # "Panic"

\* the read succeeded and left the reader at the end of the block, which is
\* as long as its header declares
ConsumesDeclaredLength ==
    /\ fnOut.ok
    /\ BlockHeader_parse_from_bytes(SubSeq(fnArg.wire, 1, 8)).block_length
          = wire_u32(fnArg.byte_order, Len(fnArg.wire))
    /\ fnOut.pos = Len(fnArg.wire)

\* C26: reading any block (Section Header, Interface Description, Enhanced
\* Packet, Simple Packet, Name Resolution, Generic) that declares a total
\* length N consumes exactly N bytes of the stream, header and trailing length
\* included, with or without options, so that the next BlockHeader read starts
\* at the following block
C26_ReadConsumesDeclaredLength ==
    (mode = "block" /\ fnPc = "done" /\ ~fnArg.undersized) => ConsumesDeclaredLength

\* the same without the Section Header Blocks that have no option list and
\* without the Simple Packet Blocks read into a buffer shorter than the block
C26_ExceptBareSectionAndShortBuffer ==
    (/\ mode = "block" /\ fnPc = "done" /\ ~fnArg.undersized
     /\ ~ (fnArg.kind = "SectionHeader" /\ Len(fnArg.wire) = 28)
     /\ ~ (fnArg.kind = "SimplePacket" /\ Len(fnArg.buffer) < Len(fnArg.wire))) =>
        ConsumesDeclaredLength

\* C28: reading a Simple Packet Block of declared length N returns content of
\* length N - 16, the packet bytes of the block, which never extends past the
\* bytes read for this block, and does not panic for any caller buffer,
\* including an empty one
C28_SimplePacketContent ==
    (/\ mode = "block" /\ fnPc = "done" /\ ~fnArg.undersized
     /\ fnArg.kind = "SimplePacket") =>
        /\ fnOut.ok
        /\ Len(fnOut.block.content) = Len(fnArg.wire) - 16
        /\ fnOut.block.content = SubSeq(fnArg.wire, 13, Len(fnArg.wire) - 4)

\* what is read instead: with a buffer shorter than N the read panics; with
\* one of N bytes or more the content is the first N bytes of the buffer, the
\* packet bytes followed by what the buffer held before
C28_ContentIsDeclaredLengthOfBuffer ==
    (/\ mode = "block" /\ fnPc = "done" /\ ~fnArg.undersized
     /\ fnArg.kind = "SimplePacket") =>
        IF Len(fnArg.buffer) < Len(fnArg.wire)
        THEN fnOut.err = "Panic"
        ELSE /\ fnOut.ok
             /\ Len(fnOut.block.content) = Len(fnArg.wire)
             /\ fnOut.block.content =
                   SubSeq(fnArg.wire, 13, Len(fnArg.wire) - 4)
                   \o SubSeq(fnArg.buffer, Len(fnArg.wire) - 15, Len(fnArg.wire))

----------------------------------------------------------------------------
(* ByteOrder: encoding a value and decoding it again *)

\* the values encoded: 0x1234, 0x3412 and the ends of the u16 range; 0x12345678,
\* 0x78563412 and other 32-bit values, all with a low byte below 128 so that
\* the value read back in the opposite order stays below 2^31
Values16 == {0, 1, 255, 256, 4660, 13330, 65535}
Values32 == {0, 1, 127, 256, 4660, 65536, 16777216, 305419896, 2018915346}

ByteOrderInit ==
    /\ mode = "byteorder" /\ PcapIdle /\ NgIdle
    /\ fnPc = "idle" /\ fnOut = <<>>
    /\ \E unit \in BOOLEAN, e \in Endianness, width \in {16, 32} :
          \E v \in IF width = 16 THEN Values16 ELSE Values32 :
             fnArg = [unit_struct |-> unit, order |-> e, width |-> width, value |-> v]

\* u16_to_bytes / u32_to_bytes of the unit struct BigEndian or LittleEndian, or
\* of the Endianness value
ToBytes ==
    /\ mode = "byteorder" /\ fnPc = "idle"
    /\ fnOut' = [bytes |->
                    CASE fnArg.width = 16 /\ ~fnArg.unit_struct ->
                            u16_to_bytes(fnArg.order, fnArg.value)
                      [] fnArg.width = 32 /\ ~fnArg.unit_struct ->
                            u32_to_bytes(fnArg.order, fnArg.value)
                      [] fnArg.width = 16 /\ fnArg.unit_struct /\ fnArg.order = "BigEndian" ->
                            BigEndian_u16_to_bytes(fnArg.value)
                      [] fnArg.width = 32 /\ fnArg.unit_struct /\ fnArg.order = "BigEndian" ->
                            BigEndian_u32_to_bytes(fnArg.value)
                      [] fnArg.width = 16 /\ fnArg.unit_struct
                         /\ fnArg.order = "LittleEndian" ->
                            LittleEndian_u16_to_bytes(fnArg.value)
                      [] fnArg.width = 32 /\ fnArg.unit_struct
                         /\ fnArg.order = "LittleEndian" ->
                            LittleEndian_u32_to_bytes(fnArg.value)]
    /\ fnPc' = "encoded"
    /\ UNCHANGED <<mode, fnArg, pcapVars, ngVars>>

\* u16_from_bytes / u32_from_bytes of the same byte order on the bytes
FromBytes ==
    /\ mode = "byteorder" /\ fnPc = "encoded"
    /\ fnOut' = [bytes |-> fnOut.bytes,
                 value |->
                    CASE fnArg.width = 16 /\ ~fnArg.unit_struct ->
                            u16_from_bytes(fnArg.order, fnOut.bytes)
                      [] fnArg.width = 32 /\ ~fnArg.unit_struct ->
                            u32_from_bytes(fnArg.order, fnOut.bytes)
                      [] fnArg.width = 16 /\ fnArg.unit_struct /\ fnArg.order = "BigEndian" ->
                            BigEndian_u16_from_bytes(fnOut.bytes)
                      [] fnArg.width = 32 /\ fnArg.unit_struct /\ fnArg.order = "BigEndian" ->
                            BigEndian_u32_from_bytes(fnOut.bytes)
                      [] fnArg.width = 16 /\ fnArg.unit_struct
                         /\ fnArg.order = "LittleEndian" ->
                            LittleEndian_u16_from_bytes(fnOut.bytes)
                      [] fnArg.width = 32 /\ fnArg.unit_struct
                         /\ fnArg.order = "LittleEndian" ->
                            LittleEndian_u32_from_bytes(fnOut.bytes)]
    /\ fnPc' = "decoded"
    /\ UNCHANGED <<mode, fnArg, pcapVars, ngVars>>

SpecByteOrder == ByteOrderInit /\ [][ToBytes \/ FromBytes]_vars

\* the n bytes of v, most significant byte first
most_significant_first(v, n) == [i \in 1..n |-> (v \div (256 ^ (n - i))) % 256]
\* the bytes of the value are in the byte order asked for, and decoding them
\* gives the value back
EncodedInOrderAndDecodedBack ==
    LET n == fnArg.width \div 8
        msf == most_significant_first(fnArg.value, n)
    IN  /\ fnPc \in {"encoded", "decoded"} =>
              fnOut.bytes = IF fnArg.order = "BigEndian" THEN msf
                            ELSE [i \in 1..n |-> msf[n + 1 - i]]
        /\ fnPc = "decoded" => fnOut.value = fnArg.value

\* C17: for BigEndian, LittleEndian and both Endianness values, u16_from_bytes
\* (u16_to_bytes(v)) = v and u32_from_bytes(u32_to_bytes(v)) = v, BigEndian
\* placing the most significant byte first and LittleEndian the least
\* significant byte first
C17_EncodeIsInverseOfDecode ==
    mode = "byteorder" => EncodedInOrderAndDecodedBack

\* the same for every encoding other than a 32-bit value in big-endian order
C17_ExceptBigEndian32 ==
    (mode = "byteorder" /\ ~ (fnArg.width = 32 /\ fnArg.order = "BigEndian")) =>
        EncodedInOrderAndDecodedBack

----------------------------------------------------------------------------
(* MagicNumberAndEndianness to its 4 bytes and back *)

\* what the conversions start from: a value, or 4 bytes
MagicInit ==
    /\ mode = "magic" /\ PcapIdle /\ NgIdle
    /\ fnOut = <<>>
    /\ \/ /\ fnPc = "value"
          /\ \E m \in MagicNumbers, e \in Endianness :
                fnArg = [value |-> MagicNumberAndEndianness(m, e), bytes |-> <<>>]
       \/ /\ fnPc = "bytes"
          /\ \E b \in [1..4 -> MagicBytes] :
                fnArg = [value |-> MagicNumberAndEndianness("", ""), bytes |-> b]

\* <[u8; 4]>::from(m)
MagicIntoBytes ==
    /\ mode = "magic" /\ fnPc = "value"
    /\ fnArg' = [fnArg EXCEPT !.bytes = MagicNumberAndEndianness_into_bytes(fnArg.value)]
    /\ fnPc' = "encoded"
    /\ UNCHANGED <<mode, fnOut, pcapVars, ngVars>>

\* MagicNumberAndEndianness::try_from(bytes)
MagicTryFrom ==
    /\ mode = "magic" /\ fnPc \in {"bytes", "encoded"}
    /\ fnOut' = MagicNumberAndEndianness_try_from(fnArg.bytes)
    /\ fnPc' = IF fnPc = "encoded" THEN "decoded" ELSE "parsed"
    /\ UNCHANGED <<mode, fnArg, pcapVars, ngVars>>

SpecMagic == MagicInit /\ [][MagicIntoBytes \/ MagicTryFrom]_vars

\* the 4 bytes the pcap format assigns to a magic number and endianness
FormatPattern(m) ==
    CASE m = MagicNumberAndEndianness("Microsecond", "LittleEndian") -> <<212, 195, 178, 161>>
      [] m = MagicNumberAndEndianness("Microsecond", "BigEndian") -> <<161, 178, 195, 212>>
      [] m = MagicNumberAndEndianness("Nanosecond", "LittleEndian") -> <<77, 60, 178, 161>>
      [] m = MagicNumberAndEndianness("Nanosecond", "BigEndian") -> <<161, 178, 60, 77>>
\* the bytes made of the value are its pattern, and try_from gives the value back
PatternAndBack ==
    /\ fnPc \in {"encoded", "decoded"} => fnArg.bytes = FormatPattern(fnArg.value)
    /\ fnPc = "decoded" => fnOut.ok /\ fnOut.val = fnArg.value

\* C18: converting a MagicNumberAndEndianness to its 4 bytes yields the pattern
\* the format assigns to it (D4 C3 B2 A1, A1 B2 C3 D4, 4D 3C B2 A1, A1 B2 3C 4D),
\* so that try_from of the bytes is the value again, for all four values
C18_MagicBytesRoundTrip ==
    mode = "magic" => PatternAndBack

\* the same for the two Microsecond values
C18_OnMicrosecond ==
    (mode = "magic" /\ fnArg.value.magic_number # "Nanosecond") => PatternAndBack

\* try_from recognises exactly the four patterns of the format
C18_TryFromReadsTheFormat ==
    (mode = "magic" /\ fnPc = "parsed") =>
        /\ fnOut.ok <=> \E m \in MagicNumbers, e \in Endianness :
                           fnArg.bytes = FormatPattern(MagicNumberAndEndianness(m, e))
        /\ fnOut.ok => fnArg.bytes = FormatPattern(fnOut.val)

----------------------------------------------------------------------------
(* PacketHeader written and parsed back *)

PktRoundTripInit ==
    /\ mode = "pktrt" /\ PcapIdle /\ NgIdle
    /\ fnPc = "idle" /\ fnOut = <<>>
    /\ \E seconds \in {1, 256}, usec \in {0, 2}, incl \in {0, 100}, orig \in {100, 65536},
          e \in Endianness, v \in HeaderVersions :
          fnArg = [h |-> PacketHeader(PacketTimestamp(seconds, usec), incl, orig),
                   e |-> e, version |-> v]

\* h.write(&mut target, e, v)
WriteForRoundTrip ==
    /\ mode = "pktrt" /\ fnPc = "idle"
    /\ fnOut' = [bytes |-> PacketHeader_write(fnArg.h, fnArg.e, fnArg.version)]
    /\ fnPc' = "written"
    /\ UNCHANGED <<mode, fnArg, pcapVars, ngVars>>

\* PacketHeader::parse_bytes(&target, e, v)
ParseWritten ==
    /\ mode = "pktrt" /\ fnPc = "written"
    /\ fnOut' = [bytes |-> fnOut.bytes,
                 header |-> PacketHeader_parse_bytes(fnOut.bytes, fnArg.e, fnArg.version)]
    /\ fnPc' = "parsed"
    /\ UNCHANGED <<mode, fnArg, pcapVars, ngVars>>

SpecPktRoundTrip == PktRoundTripInit /\ [][WriteForRoundTrip \/ ParseWritten]_vars

\* C19: for every PacketHeader h, either endianness e and every version v,
\* parse_bytes of the 16 bytes h.write(e, v) produces, with the same e and v,
\* is a header equal to h
C19_PacketHeaderRoundTrip ==
    (mode = "pktrt" /\ fnPc = "parsed") =>
        Len(fnOut.bytes) = 16 /\ fnOut.header = fnArg.h

\* the same in little-endian order
C19_OnLittleEndian ==
    (mode = "pktrt" /\ fnPc = "parsed" /\ fnArg.e = "LittleEndian") =>
        Len(fnOut.bytes) = 16 /\ fnOut.header = fnArg.h

----------------------------------------------------------------------------
(* SectionHeaderBlock::read_with_header on any byte-order marker *)

\* the two markers, and patterns that are neither
Markers ==
    {<<26, 43, 60, 77>>, <<77, 60, 43, 26>>, <<26, 43, 60, 78>>, <<77, 43, 60, 26>>,
     <<10, 13, 13, 10>>, <<0, 0, 0, 0>>}
\* the 8 section length bytes: not specified, 0, and a length with both halves
\* set
SectionLengths ==
    {<<255, 255, 255, 255, 255, 255, 255, 255>>, <<0, 0, 0, 0, 0, 0, 0, 0>>,
     <<1, 0, 0, 0, 2, 0, 0, 0>>}

ShbInit ==
    /\ mode = "shb" /\ PcapIdle /\ NgIdle
    /\ fnPc = "idle" /\ fnOut = <<>>
    /\ \E marker \in Markers, w \in Endianness, sl \in SectionLengths, tail \in OptionTails,
          given \in Endianness \cup {NoByteOrder}, build \in Builds :
          fnArg = [marker |-> marker, section_length |-> sl, byte_order |-> given,
                   build |-> build,
                   wire |-> wire_block(w, 168627466,
                                       marker \o wire_u16(w, 1) \o wire_u16(w, 2) \o sl
                                       \o tail)]

\* BlockHeader::parse_from_bytes on the first 8 bytes, then
\* SectionHeaderBlock::read_with_header with the byte order of the caller
ReadSectionHeader ==
    /\ mode = "shb" /\ fnPc = "idle"
    /\ fnOut' = SectionHeaderBlock_read_with_header(
                    fnArg.wire, 8, BlockHeader_parse_from_bytes(SubSeq(fnArg.wire, 1, 8)),
                    fnArg.byte_order, <<>>, fnArg.build)
    /\ fnPc' = "done"
    /\ UNCHANGED <<mode, fnArg, pcapVars, ngVars>>

SpecShb == ShbInit /\ [][ReadSectionHeader]_vars

\* the byte order a marker stands for
OrderOfMarker(marker) ==
    CASE marker = <<26, 43, 60, 77>> -> "BigEndian"
      [] marker = <<77, 60, 43, 26>> -> "LittleEndian"
      [] OTHER -> "none"

\* C20: read_with_header takes byte_order from the first 4 body bytes alone
\* (1A 2B 3C 4D BigEndian, 4D 3C 2B 1A LittleEndian) whatever byte order the
\* caller supplies, decodes the block length, the version and the section
\* length in that order, the section length being None when its 8 bytes are all
\* 0xFF, and fails with InvalidEndianness carrying the 4 bytes for any other
\* marker
C20_ByteOrderFromMarkerAlone ==
    (mode = "shb" /\ fnPc = "done") =>
        LET o == OrderOfMarker(fnArg.marker)
            dec4(b) == IF o = "BigEndian" THEN from_be_bytes4(b) ELSE from_le_bytes4(b)
            dec2(b) == IF o = "BigEndian" THEN from_be_bytes2(b) ELSE from_le_bytes2(b)
            sl == fnArg.section_length
        IN  /\ o = "none" =>
                  /\ ~fnOut.ok /\ fnOut.err = "InvalidEndianness"
                  /\ fnOut.got = fnArg.marker
            /\ o # "none" =>
                  /\ fnOut.err # "InvalidEndianness"
                  /\ fnOut.ok =>
                        /\ fnOut.block.byte_order = o
                        /\ fnOut.block.block_length = dec4(SubSeq(fnArg.wire, 5, 8))
                        /\ fnOut.block.version.major = dec2(SubSeq(fnArg.wire, 13, 14))
                        /\ fnOut.block.version.minor = dec2(SubSeq(fnArg.wire, 15, 16))
                        /\ fnOut.block.section_length.some
                              <=> sl # <<255, 255, 255, 255, 255, 255, 255, 255>>
                        /\ fnOut.block.section_length.some =>
                              fnOut.block.section_length.v =
                                 IF o = "BigEndian"
                                 THEN [hi |-> dec4(SubSeq(sl, 1, 4)), lo |-> dec4(SubSeq(sl, 5, 8))]
                                 ELSE [hi |-> dec4(SubSeq(sl, 5, 8)), lo |-> dec4(SubSeq(sl, 1, 4))]

\* a little-endian section was read by a caller that supplied BigEndian: the
\* block is little-endian, version 1.2, 32 bytes long, with no section length
C20_Witness ==
    /\ mode = "shb" /\ fnPc = "done" /\ fnOut.ok
    /\ fnArg.byte_order = "BigEndian" /\ fnArg.marker = <<77, 60, 43, 26>>
    /\ fnOut.block.byte_order = "LittleEndian"
    /\ fnOut.block.block_length = 32
    /\ fnOut.block.version = Version(1, 2)
    /\ ~fnOut.block.section_length.some

\* a marker that is neither pattern was refused with its 4 bytes
C20_RefusedMarker ==
    /\ mode = "shb" /\ fnPc = "done" /\ ~fnOut.ok
    /\ fnOut.err = "InvalidEndianness" /\ fnOut.got = <<26, 43, 60, 78>>

----------------------------------------------------------------------------
(* PcapFileHeader::read on crafted streams *)

\* the first 4 bytes: the four magic patterns, the pcap-ng magic and a near miss
FirstFour == CraftMagics \cup {PCAP_NG_MAGIC, <<161, 178, 195, 213>>}
\* bytes 20..24: Ethernet and values that are no link type, below and above
\* 65536, in either order
LinkTypeWords ==
    {<<1, 0, 0, 0>>, <<0, 0, 0, 1>>, <<2, 0, 0, 0>>, <<0, 0, 0, 2>>,
     <<2, 0, 1, 0>>, <<0, 1, 0, 2>>, <<1, 0, 1, 0>>}

FileReadInit ==
    /\ mode = "hdrread" /\ PcapIdle /\ NgIdle
    /\ fnPc = "idle" /\ fnOut = <<>>
    /\ \E magic \in FirstFour, v \in {<<0, 2, 0, 4>>, <<2, 0, 4, 0>>}, snapW \in CraftWords,
          lt \in LinkTypeWords, rest \in {<<>>, <<7, 7>>} :
          fnArg = [magic |-> magic, link_type |-> lt,
                   wire |-> magic \o v \o <<0, 0, 0, 3>> \o <<4, 0, 0, 0>> \o snapW \o lt
                            \o rest]

\* PcapFileHeader::read on a reader at offset 0
ReadFileHeader ==
    /\ mode = "hdrread" /\ fnPc = "idle"
    /\ fnOut' = PcapFileHeader_read(fnArg.wire, 0)
    /\ fnPc' = "done"
    /\ UNCHANGED <<mode, fnArg, pcapVars, ngVars>>

SpecFileRead == FileReadInit /\ [][ReadFileHeader]_vars

\* the byte order a pcap magic pattern stands for
OrderOfMagic(magic) ==
    CASE magic \in {<<161, 178, 195, 212>>, <<161, 178, 60, 77>>} -> "BigEndian"
      [] magic \in {<<212, 195, 178, 161>>, <<77, 60, 178, 161>>} -> "LittleEndian"
      [] OTHER -> "none"

\* what the claim states of one read: 24 bytes consumed; InvalidMagicNumber
\* with the 4 bytes; InvalidLinkType with the value of bytes 20..24; otherwise
\* every field decoded in the order of the magic
FileHeaderReadAsStated ==
    LET o == OrderOfMagic(fnArg.magic)
        dec4(b) == IF o = "BigEndian" THEN from_be_bytes4(b) ELSE from_le_bytes4(b)
        dec2(b) == IF o = "BigEndian" THEN from_be_bytes2(b) ELSE from_le_bytes2(b)
        w == fnArg.wire
        raw == dec4(fnArg.link_type)
    IN  /\ fnOut.pos = 24
        /\ o = "none" =>
              ~fnOut.ok /\ fnOut.err = "InvalidMagicNumber" /\ fnOut.bytes = fnArg.magic
        /\ (o # "none" /\ raw \notin LinkTypes) =>
              ~fnOut.ok /\ fnOut.err = "InvalidLinkType" /\ fnOut.raw = raw
        /\ (o # "none" /\ raw \in LinkTypes) =>
              /\ fnOut.ok
              /\ fnOut.val.magic_number_and_endianness.endianness = o
              /\ fnOut.val.magic_number_and_endianness.magic_number =
                    (IF fnArg.magic \in {<<161, 178, 195, 212>>, <<212, 195, 178, 161>>}
                     THEN "Microsecond" ELSE "Nanosecond")
              /\ fnOut.val.version = Version(dec2(SubSeq(w, 5, 6)), dec2(SubSeq(w, 7, 8)))
              /\ fnOut.val.timezone = dec4(SubSeq(w, 9, 12))
              /\ fnOut.val.sig_figs = dec4(SubSeq(w, 13, 16))
              /\ fnOut.val.snap_length = dec4(SubSeq(w, 17, 20))
              /\ fnOut.val.link_type = raw

\* C21: PcapFileHeader::read consumes exactly 24 bytes; it fails with
\* InvalidMagicNumber carrying the 4 offending bytes when they match none of
\* the four patterns, and with InvalidLinkType carrying the raw value of bytes
\* 20..24, decoded in the order of the magic, when that value is no link type;
\* otherwise every field is decoded in the order of the magic
C21_FileHeaderReadErrors ==
    (mode = "hdrread" /\ fnPc = "done") => FileHeaderReadAsStated

\* the same, for link-type fields whose value fits 16 bits
C21_OnLinkTypesBelow65536 ==
    (/\ mode = "hdrread" /\ fnPc = "done"
     /\ \/ OrderOfMagic(fnArg.magic) = "BigEndian" /\ from_be_bytes4(fnArg.link_type) < 65536
        \/ OrderOfMagic(fnArg.magic) = "LittleEndian" /\ from_le_bytes4(fnArg.link_type) < 65536
        \/ OrderOfMagic(fnArg.magic) = "none") =>
        FileHeaderReadAsStated

----------------------------------------------------------------------------
(* EnhancedPacket written and read back *)

\* Option<BlockOptions> of the packet written: None, an empty list, a comment,
\* a custom option with its PEN
PacketOptions ==
    {NoOptions,
     [some |-> TRUE, options |-> <<>>],
     [some |-> TRUE, options |-> <<BlockOption(1, 3, None32, <<65, 66, 67>>)>>],
     [some |-> TRUE, options |-> <<BlockOption(2988, 1, Some32(1), <<65>>)>>]}

EpbWriteInit ==
    /\ mode = "epbw" /\ PcapIdle /\ NgIdle
    /\ fnPc = "start" /\ fnOut = [bytes |-> <<>>, read |-> NgErr("", 0, <<>>)]
    /\ \E e \in Endianness, n \in 0..MaxCapturedLen, more \in {0, 5}, id \in {0, 1},
          options \in PacketOptions, build \in Builds :
          fnArg = [byte_order |-> e, build |-> build,
                   packet |-> [kind |-> "EnhancedPacket", block_length |-> 32,
                               interface_id |-> id, timestamp_high |-> 1 - id,
                               timestamp_low |-> 258,
                               captured_length |-> n, original_length |-> n + more,
                               content |-> Content(n, 10), options |-> options]]

\* EnhancedPacket::write into an empty Vec
WriteEnhancedPacket ==
    /\ mode = "epbw" /\ fnPc = "start"
    /\ fnOut' = [fnOut EXCEPT !.bytes = EnhancedPacket_write(fnArg.packet, fnArg.byte_order)]
    /\ fnPc' = "written"
    /\ UNCHANGED <<mode, fnArg, pcapVars, ngVars>>

\* BlockHeader::read, then EnhancedPacket::read_with_header with the byte order
\* of the write and a new content buffer
ReadWrittenPacket ==
    /\ mode = "epbw" /\ fnPc = "written"
    /\ fnOut' = [fnOut EXCEPT
                    !.read = EnhancedPacket_read_with_header(
                                 fnOut.bytes, BlockHeader_read(fnOut.bytes, 0).pos,
                                 BlockHeader_read(fnOut.bytes, 0).header,
                                 fnArg.byte_order, <<>>, fnArg.build)]
    /\ fnPc' = "done"
    /\ UNCHANGED <<mode, fnArg, pcapVars, ngVars>>

SpecEpbWrite == EpbWriteInit /\ [][WriteEnhancedPacket \/ ReadWrittenPacket]_vars

\* the packet read back is the packet written, and the reader is at the end of
\* the written bytes
ReadBackIsWritten ==
    /\ fnOut.read.ok
    /\ fnOut.read.block.interface_id = fnArg.packet.interface_id
    /\ fnOut.read.block.timestamp_high = fnArg.packet.timestamp_high
    /\ fnOut.read.block.timestamp_low = fnArg.packet.timestamp_low
    /\ fnOut.read.block.captured_length = fnArg.packet.captured_length
    /\ fnOut.read.block.original_length = fnArg.packet.original_length
    /\ fnOut.read.block.content = fnArg.packet.content
    /\ fnOut.read.block.options = fnArg.packet.options
    /\ fnOut.read.pos = Len(fnOut.bytes)

\* C22: for any EnhancedPacket p with captured_length = content.len() and
\* either byte order, BlockHeader::read and EnhancedPacket::read_with_header on
\* the bytes p.write produced, with the same byte order, yield the same
\* interface_id, timestamps, lengths, content and options and leave the reader
\* at the end of the written bytes
C22_EnhancedPacketRoundTrip ==
    (mode = "epbw" /\ fnPc = "done") => ReadBackIsWritten

\* the same, in LittleEndian and with no option list or one that has options
C22_OnLittleEndianWithoutEmptyOptions ==
    (/\ mode = "epbw" /\ fnPc = "done"
     /\ fnArg.byte_order = "LittleEndian"
     /\ fnArg.packet.options # [some |-> TRUE, options |-> <<>>]) =>
        ReadBackIsWritten

\* the 12 + 20 + padded content + options bytes a block holds
WrittenLength ==
    12 + 20 + pad_length_to_32_bytes(Len(fnArg.packet.content))
    + (IF fnArg.packet.options.some
       THEN Len(BlockOptions_write(fnArg.packet.options.options, fnArg.byte_order))
       ELSE 0)

\* C27: EnhancedPacket::write emits a block whose header total-length field
\* equals the number of bytes written (12 of header and footer, 20 of fixed
\* fields, the content padded with zero bytes to a multiple of 4, the encoded
\* options), and whose final 4 bytes repeat that total length in the same byte
\* order
C27_WrittenLengthAndFooter ==
    (mode = "epbw" /\ fnPc # "start") =>
        LET b == fnOut.bytes
            L == Len(fnArg.packet.content)
            dec4(x) == IF fnArg.byte_order = "BigEndian" THEN from_be_bytes4(x)
                       ELSE from_le_bytes4(x)
        IN  /\ Len(b) = WrittenLength
            /\ dec4(SubSeq(b, 5, 8)) = Len(b)
            /\ SubSeq(b, 29, 28 + L) = fnArg.packet.content
            /\ \A i \in (28 + L + 1)..(28 + pad_length_to_32_bytes(L)) : b[i] = 0
            /\ dec4(SubSeq(b, Len(b) - 3, Len(b))) = Len(b)
            /\ SubSeq(b, Len(b) - 3, Len(b)) = SubSeq(b, 5, 8)

\* the part of C27 the writer keeps in LittleEndian: the length field, the
\* content and its zero padding
C27_LengthFieldOnLittleEndian ==
    (mode = "epbw" /\ fnPc # "start" /\ fnArg.byte_order = "LittleEndian") =>
        LET b == fnOut.bytes
            L == Len(fnArg.packet.content)
        IN  /\ Len(b) = WrittenLength
            /\ from_le_bytes4(SubSeq(b, 5, 8)) = Len(b)
            /\ SubSeq(b, 29, 28 + L) = fnArg.packet.content
            /\ \A i \in (28 + L + 1)..(28 + pad_length_to_32_bytes(L)) : b[i] = 0

----------------------------------------------------------------------------
(* SyncAnyPcapReader beside SyncPcapReader and SyncPcapNgReader *)

\* next_packet calls made on each reader
MaxCalls == 3
\* the records of a pcap file: 16 header bytes whose third word is the
\* included length in one byte order or the other, and n body bytes
PcapRecords ==
    {<<1, 0, 0, 0>> \o <<0, 0, 0, 0>> \o third \o <<1, 0, 0, 0>> \o Content(n, 10) :
        third \in CraftWords, n \in 0..MaxContentLen}
\* pcap files: a header of either resolution and byte order, up to 2 records,
\* and a stream that ends there or inside the next record header
PcapFiles ==
    {magic \o <<0, 2, 0, 4>> \o <<0, 0, 0, 0>> \o <<0, 0, 0, 0>> \o snapW
     \o (IF OrderOfMagic(magic) = "BigEndian" THEN <<0, 0, 0, 1>> ELSE <<1, 0, 0, 0>>)
     \o a \o b \o rest :
        magic \in CraftMagics, snapW \in CraftUnit, a \in PcapRecords \cup {<<>>},
        b \in PcapRecords \cup {<<>>}, rest \in {<<>>, <<7, 7, 7>>}}
\* the blocks that follow the first Section Header Block
NgBlocks(e) ==
    {wire_idb(e, 1, <<0, 0, 0, 0>>), wire_epb(e, MaxContentLen, <<0, 0, 0, 0>>),
     wire_epb(e, 0, <<>>), wire_spb(e, 4), wire_generic(e, 4)}
\* pcap-ng files: a Section Header Block with or without an option list and up
\* to 2 blocks
NgFiles ==
    UNION {{wire_shb(e, tail) \o a \o b :
               tail \in OptionTails, a \in NgBlocks(e) \cup {<<>>},
               b \in NgBlocks(e) \cup {<<>>}} : e \in Endianness}

\* the SyncPcapReader or SyncPcapNgReader built on the stream itself
DirectReader(s, build) ==
    IF SubSeq(s, 1, 4) = PCAP_NG_MAGIC
    THEN AnyReader_pcap_ng(SyncPcapNgReader_new(s, build))
    ELSE AnyReader_pcap(PcapFileHeader_read(s, 0))

AnyVsInit ==
    /\ mode = "anyvs" /\ PcapIdle /\ NgIdle
    /\ fnPc = "start"
    /\ fnOut = [any |-> AnyReader(FALSE, "", "", NoFileHeader, <<>>, 0),
                direct |-> AnyReader(FALSE, "", "", NoFileHeader, <<>>, 0),
                anyGot |-> <<>>, directGot |-> <<>>]
    /\ \E wire \in PcapFiles \cup NgFiles, n \in FirstReads, build \in Builds :
          fnArg = [wire |-> wire, first_read |-> n, build |-> build]

\* SyncAnyPcapReader::new on one reader over the stream, SyncPcapReader::new or
\* SyncPcapNgReader::new on another
BothNew ==
    /\ mode = "anyvs" /\ fnPc = "start"
    /\ fnOut' = [fnOut EXCEPT
                    !.any = SyncAnyPcapReader_new(fnArg.wire, fnArg.first_read, fnArg.build),
                    !.direct = DirectReader(fnArg.wire, fnArg.build)]
    /\ fnPc' = "built"
    /\ UNCHANGED <<mode, fnArg, pcapVars, ngVars>>

\* what a next_packet call that returned r leaves behind in reader which
AfterNextPacket(which, got, r) ==
    [fnOut EXCEPT ![which] = r.self, ![got] = Append(fnOut[got], r.res)]

\* next_packet on the SyncAnyPcapReader
AnyNextPacket ==
    /\ mode = "anyvs" /\ fnPc = "built" /\ fnOut.any.ok
    /\ Len(fnOut.anyGot) < MaxCalls
    /\ Len(fnOut.anyGot) <= Len(fnOut.directGot)
    /\ \A i \in 1..Len(fnOut.anyGot) : fnOut.anyGot[i].kind # "Panic"
    /\ fnOut' = AfterNextPacket("any", "anyGot",
                                SyncAnyPcapReader_next_packet(fnArg.wire, fnOut.any,
                                                              fnArg.build))
    /\ UNCHANGED <<mode, fnPc, fnArg, pcapVars, ngVars>>

\* SyncPcapReader::next_packet or SyncPcapNgReader::next_packet on the reader
\* built on the stream itself: the reader it leaves and the result r.res
DirectReader_after(self, r) ==
    [res |-> r.res,
     self |-> IF self.file_type = "Pcap" THEN [self EXCEPT !.pos = r.pos]
              ELSE [self EXCEPT !.ng = r.self, !.pos = r.pos]]
DirectReader_next_packet(s, self, build) ==
    IF self.file_type = "Pcap"
    THEN DirectReader_after(self, SyncPcapReader_next_packet(s, self.pos, self.header))
    ELSE DirectReader_after(
             self, SyncPcapNgReader_next_packet(s, self.pos, self.ng, self.pos, build, <<>>))

\* next_packet on the SyncPcapReader or SyncPcapNgReader
DirectNextPacket ==
    /\ mode = "anyvs" /\ fnPc = "built" /\ fnOut.direct.ok
    /\ Len(fnOut.directGot) < MaxCalls
    /\ Len(fnOut.directGot) <= Len(fnOut.anyGot)
    /\ \A i \in 1..Len(fnOut.directGot) : fnOut.directGot[i].kind # "Panic"
    /\ fnOut' = AfterNextPacket("direct", "directGot",
                                DirectReader_next_packet(fnArg.wire, fnOut.direct,
                                                         fnArg.build))
    /\ UNCHANGED <<mode, fnPc, fnArg, pcapVars, ngVars>>

SpecAnyVs == AnyVsInit /\ [][BothNew \/ AnyNextPacket \/ DirectNextPacket]_vars

\* a result of the reader built on the stream itself, as SyncAnyPcapReader is
\* to return it: a pcap header wrapped as AnyPacketHeader::Pcap, the same bytes
WrappedAsAny(d) ==
    IF fnOut.direct.file_type = "Pcap"
    THEN IF d.kind = "Some"
         THEN [kind |-> "Some", err |-> "",
               packet |-> [header |-> [kind |-> "Pcap", header |-> d.header],
                           content |-> d.data]]
         ELSE [kind |-> d.kind, err |-> d.err, packet |-> <<>>]
    ELSE [kind |-> d.kind, err |-> d.err, packet |-> d.packet]

\* both constructions agree, the results of the calls made on both readers
\* agree, and after as many calls the two readers are at the same offset
SameAsDirectReader ==
    /\ fnOut.any.ok = fnOut.direct.ok
    /\ \A i \in 1..Min(Len(fnOut.anyGot), Len(fnOut.directGot)) :
          fnOut.anyGot[i] = WrappedAsAny(fnOut.directGot[i])
    /\ (fnOut.any.ok /\ Len(fnOut.anyGot) = Len(fnOut.directGot)) =>
          /\ fnOut.any.pos = fnOut.direct.pos
          /\ fnOut.any.header = fnOut.direct.header
          /\ fnOut.any.ng = fnOut.direct.ng

\* C23: on a stream that begins with a pcap magic SyncAnyPcapReader yields the
\* next_packet results of SyncPcapReader::new on the same stream, headers
\* wrapped as AnyPacketHeader::Pcap, and on one that begins with the pcap-ng
\* magic those of SyncPcapNgReader::new; the 4 peeked bytes are replayed into
\* the header parse exactly once
C23_AnyReaderYieldsWhatTheReaderYields ==
    (mode = "anyvs" /\ fnPc = "built") => SameAsDirectReader

\* the same on readers whose first read call delivers all 4 bytes asked for
C23_WhenFirstReadIsFull ==
    (mode = "anyvs" /\ fnPc = "built" /\ fnArg.first_read = 4) => SameAsDirectReader

----------------------------------------------------------------------------
(* The async readers beside the sync readers *)

\* the blocks read on both paths: those of the block types that take the
\* default async_read_with_header, and Generic blocks
AsyncKinds == {"InterfaceDescription", "EnhancedPacket", "SimplePacket", "Generic"}

AsyncInit ==
    /\ mode = "async" /\ PcapIdle /\ NgIdle
    /\ fnPc = "start"
    /\ fnOut = [sync |-> <<>>, async |-> <<>>]
    /\ \/ \E e \in Endianness, buffer \in PacketBuffers, build \in Builds,
             more \in {<<>>, <<1, 2, 3, 4, 5, 6, 7, 8>>} :
             \E b \in {w \in BlockWires(e) : w.kind \in AsyncKinds} :
                fnArg = [form |-> "block", kind |-> b.kind, undersized |-> b.undersized,
                         byte_order |-> e, buffer |-> buffer, build |-> build,
                         wire |-> b.wire \o more]
       \/ \E wire \in PcapFiles :
             fnArg = [form |-> "pcap", wire |-> wire]

\* PcapNgBlock::read and PcapNgBlock::read_async, each on a reader that has
\* delivered the 8 header bytes of the block
ReadBlockBothWays ==
    /\ mode = "async" /\ fnPc = "start" /\ fnArg.form = "block"
    /\ fnOut' = [sync |-> PcapNgBlock_read(
                              fnArg.wire, 8,
                              BlockHeader_parse_from_bytes(SubSeq(fnArg.wire, 1, 8)),
                              fnArg.byte_order, fnArg.buffer, fnArg.build),
                 async |-> PcapNgBlock_read_async(
                               fnArg.wire, 8,
                               BlockHeader_parse_from_bytes(SubSeq(fnArg.wire, 1, 8)),
                               fnArg.byte_order, fnArg.buffer, fnArg.build)]
    /\ fnPc' = "done"
    /\ UNCHANGED <<mode, fnArg, pcapVars, ngVars>>

\* SyncPcapReader::new and AsyncPcapReader::new, each on a reader over the file
NewBothWays ==
    /\ mode = "async" /\ fnPc = "start" /\ fnArg.form = "pcap"
    /\ fnOut' = [sync |-> [reader |-> PcapFileHeader_read(fnArg.wire, 0), got |-> <<>>],
                 async |-> [reader |-> AsyncPcapReader_new(fnArg.wire), got |-> <<>>]]
    /\ fnPc' = "open"
    /\ UNCHANGED <<mode, fnArg, pcapVars, ngVars>>

\* what a next_packet call that returned r leaves behind
AfterCall(self, r) ==
    [reader |-> [self.reader EXCEPT !.pos = r.pos], got |-> Append(self.got, r.res)]

\* SyncPcapReader::next_packet and AsyncPcapReader::next_packet, each on its
\* own reader
NextPacketBothWays ==
    /\ mode = "async" /\ fnPc = "open"
    /\ fnOut.sync.reader.ok /\ fnOut.async.reader.ok
    /\ Len(fnOut.sync.got) < MaxCalls
    /\ fnOut' = [sync |-> AfterCall(fnOut.sync,
                                    SyncPcapReader_next_packet(
                                        fnArg.wire, fnOut.sync.reader.pos,
                                        fnOut.sync.reader.val)),
                 async |-> AfterCall(fnOut.async,
                                     AsyncPcapReader_next_packet(
                                         fnArg.wire, fnOut.async.reader.pos,
                                         fnOut.async.reader.val))]
    /\ UNCHANGED <<mode, fnPc, fnArg, pcapVars, ngVars>>

SpecAsync == AsyncInit /\ [][ReadBlockBothWays \/ NewBothWays \/ NextPacketBothWays]_vars

\* the two paths returned the same thing and left their readers at the same
\* offset: the same block, or the same error kind, for a block read; the same
\* reader and the same results, for a pcap file
AsyncAsSync ==
    /\ fnPc = "done" =>
          /\ fnOut.async.ok = fnOut.sync.ok
          /\ fnOut.async.err = fnOut.sync.err
          /\ fnOut.async.block = fnOut.sync.block
          /\ fnOut.async.pos = fnOut.sync.pos
    /\ fnPc = "open" => fnOut.async = fnOut.sync

\* C24: for the same input bytes AsyncPcapReader::next_packet returns what
\* SyncPcapReader::next_packet returns, and PcapNgBlock::read_async with the
\* default async_read_with_header what PcapNgBlock::read returns: the same
\* packets or blocks in the same order, the same error kind at the same point
\* of the stream
C24_AsyncReadersAsSyncReaders ==
    (mode = "async" /\ fnPc # "start") => AsyncAsSync

\* the same on pcap files and on blocks whose declared length is not below the
\* minimum framing size of their kind
C24_OnPcapAndFramedBlocks ==
    (/\ mode = "async" /\ fnPc # "start"
     /\ fnArg.form = "block" => ~fnArg.undersized) => AsyncAsSync

----------------------------------------------------------------------------
(* PeakableReader, call by call *)

\* read calls made on one PeakableReader
MaxReads == 4
\* the bytes asked of PeakableReader::new and the buffer sizes of the callers
PeekSizes == 0..4
BufferSizes == {0, 1, 2, 3, 8}
\* the streams: at least as long as any peek
PeakStreams == {Content(4, 50), Content(6, 50)}
\* what one read call of the inner reader may deliver of a request of len
\* bytes at offset p: nothing of an empty request or at the end, otherwise at
\* least one byte
Chunks(s, p, len) ==
    IF Min(len, Len(s) - p) = 0 THEN {0} ELSE 1..Min(len, Len(s) - p)

PeakInit ==
    /\ mode = "peak" /\ PcapIdle /\ NgIdle
    /\ fnPc = "start"
    /\ fnOut = <<>>
    /\ \E s \in PeakStreams, n \in PeekSizes :
          fnArg = [stream |-> s, peek_size |-> n]

\* the PeakableReader new returns when the read call it makes delivers n bytes
NewPeakable(n) ==
    PeakableReader(TRUE, PeakableReader_new(fnArg.stream, fnArg.peek_size, n).peeked,
                   PeakableReader_new(fnArg.stream, fnArg.peek_size, n).pos)
\* PeakableReader::new(inner, peek_size), then peak()
PeakNew ==
    /\ mode = "peak" /\ fnPc = "start"
    /\ \E n \in Chunks(fnArg.stream, 0, fnArg.peek_size) :
          fnOut' = [self |-> NewPeakable(n), peak |-> PeakableReader_peak(NewPeakable(n)),
                    delivered |-> <<>>, reads |-> 0, len |-> 0, count |-> 0]
    /\ fnPc' = "peeked"
    /\ UNCHANGED <<mode, fnArg, pcapVars, ngVars>>

\* what a read call that returned r into a buffer of len bytes leaves behind
AfterRead(r, len) ==
    [fnOut EXCEPT !.self = r.self,
                  !.delivered = fnOut.delivered \o r.bytes,
                  !.reads = fnOut.reads + 1,
                  !.len = len,
                  !.count = Len(r.bytes)]

\* one read call on the PeakableReader
PeakRead ==
    /\ mode = "peak" /\ fnPc = "peeked" /\ fnOut.reads < MaxReads
    /\ \E len \in BufferSizes :
          \E n \in Chunks(fnArg.stream, fnOut.self.pos, len) :
             fnOut' = AfterRead(PeakableReader_read_buf(fnOut.self, fnArg.stream, len, n),
                                len)
    /\ UNCHANGED <<mode, fnPc, fnArg, pcapVars, ngVars>>

SpecPeak == PeakInit /\ [][PeakNew \/ PeakRead]_vars

\* the reads so far delivered the stream from offset 0, each byte once and in
\* order, and what the reader still holds and the inner reader still has to
\* deliver is the rest of it
DeliversStreamOnce ==
    /\ fnOut.delivered = SubSeq(fnArg.stream, 1, Len(fnOut.delivered))
    /\ fnOut.delivered \o fnOut.self.peeked
          \o SubSeq(fnArg.stream, fnOut.self.pos + 1, Len(fnArg.stream)) = fnArg.stream
\* new left the first n bytes for peak() and consumed none for the reads
PeakIsFirstBytes ==
    /\ fnOut.peak.some
    /\ fnOut.peak.val = SubSeq(fnArg.stream, 1, fnArg.peek_size)

\* C29: after PeakableReader::new(r, n) on a stream of at least n bytes,
\* peak() returns the first n bytes without consuming them, and the reads that
\* follow, for any caller buffer sizes, deliver the entire original stream from
\* offset 0, the peeked bytes first and each byte exactly once
C29_PeakThenWholeStream ==
    (mode = "peak" /\ fnPc = "peeked") => PeakIsFirstBytes /\ DeliversStreamOnce

\* the reads deliver the stream from offset 0 and each byte once, whatever
\* new peeked
C29_ReadsDeliverStreamOnce ==
    (mode = "peak" /\ fnPc = "peeked") => DeliversStreamOnce

\* the whole claim when the read call made by new returned n bytes
C29_WhenFirstReadIsFull ==
    (/\ mode = "peak" /\ fnPc = "peeked"
     /\ Len(fnOut.peak.val) = fnArg.peek_size) =>
        PeakIsFirstBytes /\ DeliversStreamOnce

----------------------------------------------------------------------------
(* pad_length_to_32_bytes *)
PadInit ==
    /\ mode = "pad" /\ fnPc = "start" /\ fnArg \in 0..MaxPadLen /\ fnOut = 0
    /\ PcapIdle /\ NgIdle
ApplyPad ==
    /\ mode = "pad" /\ fnPc = "start"
    /\ fnOut' = pad_length_to_32_bytes(fnArg)
    /\ fnPc' = "done"
    /\ UNCHANGED <<mode, fnArg, pcapVars, ngVars>>
SpecPad == PadInit /\ [][ApplyPad]_vars

=============================================================================
